---- MODULE Spec2Model ----
(***************************************************************************)
(* Carbonite: the aggregate-consistency engine of the emission tracker.    *)
(*                                                                         *)
(* The engine lives in the SQL migration "Realtime Global Aggregation and  *)
(* Leaderboard System": the tables user_actions, user_stats,               *)
(* global_emissions and sync_audit_log, the row trigger                    *)
(* global_sync_trigger_function that rolls a verified action into the      *)
(* per-user and the global total, and the reconcile function               *)
(* sync_global_emissions_from_user_stats.                                  *)
(*                                                                         *)
(* Amounts are NUMERIC(.,4) columns; the model counts them in units of     *)
(* 0.0001 lb, so that 0.01 lb is 100 units and decimal arithmetic is       *)
(* exact.  Every client call runs as one PostgreSQL transaction at the     *)
(* default READ COMMITTED level: each statement of a VOLATILE plpgsql      *)
(* function reads the rows committed when that statement starts, a writer  *)
(* takes the row lock and keeps it until commit, and its writes become     *)
(* visible to others only at commit.  The committed tables are the         *)
(* variables user_actions, user_stats, global_emissions, sync_audit_log;   *)
(* tx holds each session's transaction in flight (position, locals and     *)
(* uncommitted writes).                                                    *)
(***************************************************************************)
EXTENDS Integers, Sequences, FiniteSets, TLC

VARIABLES user_actions, user_stats, global_emissions, sync_audit_log,
          tx, now, last, db, lb, rd, page

vars == <<user_actions, user_stats, global_emissions, sync_audit_log,
          tx, now, last, db, lb, rd, page>>

\* the client side: the tables of the newer schema generations that
\* climateStats.ts reads, the last leaderboard response, the last
\* response of another read function, and the Actions page
readvars == <<db, lb, rd, page>>

(***************************************************************************)
(* Bounds of the model.                                                    *)
(***************************************************************************)
MaxEvents == 2
MaxClock == 3

\* events in the store when statements on several rows run
MaxRows == 3

Actors == {"A", "B"}
Sessions == {1, 2}
\* emissions_saved_lbs of an inserted row, in units of 0.0001 lb
Quantities == {50, 100}
\* quantity of an inserted row: the accepted ones, and all that are tried
ValidQuantities == {1}
QuantityInputs == {-1, 0} \cup ValidQuantities
\* the connection the application's client statements arrive on
ClientSessions == {1}
TamperDeltas == {99, 100}

\* ABS(stats_sum - global_val) < 0.01, in units of 0.0001
Tolerance == 100

Abs(x) == IF x < 0 THEN 0 - x ELSE x

(***************************************************************************)
(* Rows.                                                                   *)
(***************************************************************************)
NoStats == [present |-> FALSE, total_emissions_lbs |-> 0,
            action_count |-> 0, last_updated |-> 0]

NoGlobal == [total_lbs_saved |-> 0, total_actions |-> 0, last_updated |-> 0]

\* verified_at = 0 stands for NULL
NoAction == [user_id |-> "A", emissions_saved_lbs |-> 0, verified |-> FALSE,
             verified_at |-> 0]

\* rows, rest, held and pend belong to a statement on several user_actions
\* rows: the rows it updates, those whose trigger has not run yet, the
\* users whose user_stats rows the triggers of earlier rows have written,
\* and what they wrote
IdleTx == [pc |-> "idle", kind |-> "none", ev |-> 0, new |-> NoAction,
           start |-> 0, locks |-> {}, wstats |-> NoStats, wglob |-> NoGlobal,
           stats_sum |-> 0, global_val |-> 0, is_synced |-> TRUE,
           rows |-> {}, rest |-> << >>, held |-> {},
           pend |-> [a \in Actors |-> NoStats]]

\* what the call that completed last reported to its caller
NoCall == [op |-> "none", caller |-> "", fired |-> FALSE, was_in_sync |-> TRUE,
           user_stats_sum |-> 0, global_total |-> 0, fixed |-> FALSE]

RECURSIVE SumStats(_, _)
\* SELECT COALESCE(SUM(total_emissions_lbs), 0) FROM user_stats
SumStats(stats, S) ==
  IF S = {} THEN 0
  ELSE LET a == CHOOSE x \in S : TRUE
       IN (IF stats[a].present THEN stats[a].total_emissions_lbs ELSE 0)
          + SumStats(stats, S \ {a})

RECURSIVE SumCounts(_, _)
SumCounts(stats, S) ==
  IF S = {} THEN 0
  ELSE LET a == CHOOSE x \in S : TRUE
       IN (IF stats[a].present THEN stats[a].action_count ELSE 0)
          + SumCounts(stats, S \ {a})

\* the view consistency_check: user_stats_sum_lbs, global_total_lbs, in_sync
consistency_check ==
  LET s == SumStats(user_stats, Actors)
      g == global_emissions.total_lbs_saved
  IN [user_stats_sum_lbs |-> s, global_total_lbs |-> g,
      in_sync |-> Abs(s - g) < Tolerance]

(***************************************************************************)
(* The read side (src/services/climateStats.ts).  A table of a newer       *)
(* schema generation is [status, rows]: status "error" when the query on   *)
(* it fails (the table does not exist), "throw" when the request itself    *)
(* raises an exception, rows as read otherwise.                            *)
(* user_stats_summary and user_statistics hold one row per user (amounts   *)
(* in units of 0.0001 kg); leaderboard_snapshots and leaderboards hold     *)
(* stored ranking rows.                                                    *)
(***************************************************************************)
NoSummaryRow == [present |-> FALSE, total_co2_saved_kg |-> 0,
                 current_year_co2 |-> 0, current_month_co2 |-> 0,
                 total_actions |-> 0, last_action_date |-> 0]

EmptyStatsTable == [status |-> "ok", rows |-> [a \in Actors |-> NoSummaryRow]]

FailedStatsTable == [status |-> "error", rows |-> [a \in Actors |-> NoSummaryRow]]

EmptyBoardTable == [status |-> "ok", rows |-> {}]

FailedBoardTable == [status |-> "error", rows |-> {}]

\* the single row of global_stats_rollup ('global_all_time') / global_statistics
NoGlobalRow == [present |-> FALSE, total_users |-> 0,
                total_co2_saved_kg |-> 0, total_actions |-> 0]

EmptyGlobalTable == [status |-> "ok", row |-> NoGlobalRow]

\* user_action_events / user_action_logs: rows [user_id, co2_saved_kg],
\* newest first
EmptyLogTable == [status |-> "ok", rows |-> << >>]

\* how the queries of the services on the legacy objects end: the rpc
\* functions get_user_total / get_global_total and the tables user_stats,
\* global_emissions, user_actions, profiles
LegacyAccess == [rpc |-> "error", user_stats |-> "ok",
                 global_emissions |-> "ok", user_actions |-> "ok",
                 profiles |-> "ok"]

NoDb == [leaderboard_snapshots |-> EmptyBoardTable,
         leaderboards |-> EmptyBoardTable,
         user_stats_summary |-> EmptyStatsTable,
         user_statistics |-> EmptyStatsTable,
         global_stats_rollup |-> EmptyGlobalTable,
         global_statistics |-> EmptyGlobalTable,
         user_action_events |-> EmptyLogTable,
         user_action_logs |-> EmptyLogTable,
         legacy |-> LegacyAccess]

\* no read call made yet
NoRead == [call |-> "none", userId |-> "", limit |-> 0, source |-> "none",
           result |-> "none", total |-> 0, count |-> 0, users |-> 0,
           entries |-> << >>]

\* the calls of logAction that can be in flight on the Actions page
Calls == {1, 2}

\* a call of logAction: where it is, the reward it carries, and
\* profile.total_points of the render that created its handler
IdleCall == [pc |-> "idle", points |-> 0, base |-> 0]

\* the Actions page of one signed-in user: total_points of the user's
\* profiles row, profile.total_points of the client state, the rewards of
\* the calls whose insert and update both succeeded, the calls started
NoPage == [total_points |-> 0, profile |-> 0, earned |-> 0, started |-> 0,
           call |-> [c \in Calls |-> IdleCall]]

\* no leaderboard call made yet
NoResponse == [call |-> "none", period |-> "all_time", scope |-> "global",
               scopeId |-> "", limit |-> 0, path |-> "none",
               stats |-> << >>, entries |-> << >>]

(***************************************************************************)
(* Initial state: the tables as the migration creates them.                *)
(***************************************************************************)
Init ==
  /\ user_actions = << >>
  /\ user_stats = [a \in Actors |-> NoStats]
  /\ global_emissions = NoGlobal
  /\ sync_audit_log = << >>
  /\ tx = [s \in Sessions |-> IdleTx]
  /\ now = 0
  /\ last = NoCall
  /\ db = NoDb
  /\ lb = NoResponse
  /\ rd = NoRead
  /\ page = NoPage

(***************************************************************************)
(* Row locks.  A writer holds the lock of every row it has written until   *)
(* its transaction ends; locks[..] of a transaction names what it holds:   *)
(* "action" (the user_actions row tx.ev, and the rows tx.rows of a         *)
(* statement on several rows), "stats" (the user_stats row of              *)
(* tx.new.user_id, or the unique-index entry of the row being inserted;    *)
(* the rows of tx.held stay locked as well), "global" (the single          *)
(* global_emissions row).                                                  *)
(***************************************************************************)
ActionLockFree(s, e) ==
  \A o \in Sessions \ {s} :
    ~("action" \in tx[o].locks /\ (tx[o].ev = e \/ e \in tx[o].rows))

\* variant: the upsert does not wait for the row lock (plain read-modify-write)
StatsLockFree_None(s, a) == TRUE

StatsLockFree(s, a) ==
  \A o \in Sessions \ {s} :
    /\ ~("stats" \in tx[o].locks /\ tx[o].new.user_id = a)
    /\ a \notin tx[o].held

GlobalLockFree(s) ==
  \A o \in Sessions \ {s} : "global" \notin tx[o].locks

\* rows a session has inserted into user_actions but not yet committed
PendingInserts == Cardinality({s \in Sessions : tx[s].kind = "insert"})

\* OLD.verified as the trigger sees it: NULL on INSERT
OldVerified(kind, e) ==
  IF kind = "insert" THEN "NULL"
  ELSE IF user_actions[e].verified THEN "TRUE" ELSE "FALSE"

\* variant: the trigger fires on every write that leaves verified = TRUE
TriggerWhen_AnyVerified(oldVerified, newVerified) == newVerified

\* WHEN (NEW.verified = TRUE AND (OLD.verified IS NULL OR OLD.verified = FALSE))
\* and the same test at the head of the trigger function
TriggerWhen(oldVerified, newVerified) ==
  newVerified /\ (oldVerified = "NULL" \/ oldVerified = "FALSE")

\* variant: ON CONFLICT overwrites the total with the new row's amount
UpsertStats_Overwrite(cur, lbs, t) ==
  [present |-> TRUE, total_emissions_lbs |-> lbs,
   action_count |-> (IF cur.present THEN cur.action_count ELSE 0) + 1,
   last_updated |-> t]

\* INSERT INTO user_stats ... ON CONFLICT (user_id) DO UPDATE SET ...
UpsertStats(cur, lbs, t) ==
  IF cur.present
  THEN [present |-> TRUE,
        total_emissions_lbs |-> cur.total_emissions_lbs + lbs,
        action_count |-> cur.action_count + 1,
        last_updated |-> t]
  ELSE [present |-> TRUE, total_emissions_lbs |-> lbs,
        action_count |-> 1, last_updated |-> t]

\* variant: the global update counts the action but forgets its amount
AddGlobal_CountOnly(cur, lbs, t) ==
  [total_lbs_saved |-> cur.total_lbs_saved,
   total_actions |-> cur.total_actions + 1,
   last_updated |-> t]

\* UPDATE global_emissions SET total_lbs_saved = total_lbs_saved + NEW..., ...
AddGlobal(cur, lbs, t) ==
  [total_lbs_saved |-> cur.total_lbs_saved + lbs,
   total_actions |-> cur.total_actions + 1,
   last_updated |-> t]

(***************************************************************************)
(* append: INSERT INTO user_actions.  A row inserted with verified = FALSE *)
(* fires no trigger and the statement commits at once; a row inserted with *)
(* verified = TRUE fires global_sync_insert_trigger.                       *)
(***************************************************************************)
\* variant: the column has no CHECK constraint
QuantityCheck_None(quantity) == TRUE

\* quantity NUMERIC(12,3) NOT NULL CHECK (quantity > 0)
QuantityCheck(quantity) == quantity > 0

InsertAction(s, a, quantity, q, v) ==
  LET row == [user_id |-> a, emissions_saved_lbs |-> q, verified |-> v,
              verified_at |-> 0]
  IN /\ tx[s].pc = "idle"
     /\ IF ~QuantityCheck(quantity)
        THEN \* check_violation: the statement is aborted
             /\ last' = [NoCall EXCEPT !.op = "check_violation"]
             /\ UNCHANGED <<user_actions, tx, now>>
        ELSE /\ now < MaxClock
             /\ Len(user_actions) + PendingInserts < MaxEvents
             /\ now' = now + 1
             /\ IF TriggerWhen(OldVerified("insert", 0), v)
                THEN /\ tx' = [tx EXCEPT ![s] =
                                 [IdleTx EXCEPT !.pc = "trig_stats",
                                                !.kind = "insert",
                                                !.new = row,
                                                !.start = now + 1]]
                     /\ UNCHANGED <<user_actions, last>>
                ELSE /\ user_actions' = Append(user_actions, row)
                     /\ last' = [NoCall EXCEPT !.op = "append"]
                     /\ UNCHANGED tx
     /\ UNCHANGED <<user_stats, global_emissions, sync_audit_log>>
     /\ UNCHANGED readvars

(***************************************************************************)
(* markVerified: UPDATE user_actions SET verified = TRUE WHERE action_id = *)
(* e.  The statement takes the row lock (it waits while another            *)
(* transaction holds it) and then sees the committed row as OLD; the AFTER *)
(* UPDATE trigger fires only when the WHEN clause holds.                   *)
(***************************************************************************)
MarkVerified(s, e) ==
  /\ tx[s].pc = "idle"
  /\ now < MaxClock
  /\ e \in 1..Len(user_actions)
  /\ ActionLockFree(s, e)
  /\ now' = now + 1
  /\ LET new == [user_actions[e] EXCEPT !.verified = TRUE]
         fire == TriggerWhen(OldVerified("update", e), new.verified)
     IN tx' = [tx EXCEPT ![s] = [IdleTx EXCEPT
                  !.pc = IF fire THEN "trig_stats" ELSE "commit",
                  !.kind = "update", !.ev = e, !.new = new,
                  !.start = now + 1, !.locks = {"action"}]]
  /\ UNCHANGED <<user_actions, user_stats, global_emissions, sync_audit_log,
                 last>>
  /\ UNCHANGED readvars

\* the rollup rows as the statements of the transaction of s see them: its
\* own earlier writes, and what is committed otherwise
OwnStats(s, a) == IF a \in tx[s].held THEN tx[s].pend[a] ELSE user_stats[a]

OwnGlobal(s) == IF "global" \in tx[s].locks THEN tx[s].wglob ELSE global_emissions

\* the row e as SET verified = TRUE leaves it
RowSet(e) == [user_actions[e] EXCEPT !.verified = TRUE]

RECURSIVE FiringRows(_)
\* the rows of a scan for which the WHEN clause of the trigger holds
FiringRows(scan) ==
  IF scan = << >> THEN << >>
  ELSE (IF TriggerWhen(OldVerified("update", Head(scan)), TRUE)
        THEN <<Head(scan)>> ELSE << >>) \o FiringRows(Tail(scan))

(***************************************************************************)
(* UPDATE user_actions SET verified = TRUE WHERE action_id IN (..): one    *)
(* statement on several rows.  It locks the rows it updates in the order   *)
(* scan in which it finds them (modelled from the point where it holds     *)
(* them all); the AFTER ROW triggers are queued and run at the end of the  *)
(* statement, one row after the other in that order.                       *)
(***************************************************************************)
MarkVerifiedRows(s, scan) ==
  /\ tx[s].pc = "idle"
  /\ now < MaxClock
  /\ \A i \in 1..Len(scan) : /\ scan[i] \in 1..Len(user_actions)
                              /\ ActionLockFree(s, scan[i])
  /\ now' = now + 1
  /\ LET fire == FiringRows(scan)
     IN tx' = [tx EXCEPT ![s] = [IdleTx EXCEPT
                  !.pc = IF fire # << >> THEN "trig_stats" ELSE "commit",
                  !.kind = "rows",
                  !.rows = {scan[i] : i \in 1..Len(scan)},
                  !.ev = IF fire # << >> THEN Head(fire) ELSE 0,
                  !.new = IF fire # << >> THEN RowSet(Head(fire)) ELSE NoAction,
                  !.rest = IF fire # << >> THEN Tail(fire) ELSE << >>,
                  !.start = now + 1, !.locks = {"action"}]]
  /\ UNCHANGED <<user_actions, user_stats, global_emissions, sync_audit_log,
                 last>>
  /\ UNCHANGED readvars

\* global_sync_trigger_function, first statement: the user_stats upsert
TriggerUserStats(s) ==
  /\ tx[s].pc = "trig_stats"
  /\ StatsLockFree(s, tx[s].new.user_id)
  /\ tx' = [tx EXCEPT ![s].pc = "trig_glob",
                      ![s].locks = @ \cup {"stats"},
                      ![s].wstats = UpsertStats(OwnStats(s, tx[s].new.user_id),
                                                tx[s].new.emissions_saved_lbs,
                                                tx[s].start)]
  /\ UNCHANGED <<user_actions, user_stats, global_emissions, sync_audit_log,
                 now, last>>
  /\ UNCHANGED readvars

\* NEW.verified_at := NOW(); RETURN NEW;
TriggerReturn(new, t) == [new EXCEPT !.verified_at = t]

\* both triggers are AFTER row triggers: the row is stored before the function
\* runs and the record the function returns is discarded
StoredRow(new, returned) == new

\* global_sync_trigger_function, second statement: the global_emissions
\* update, and the end of the function
TriggerGlobal(s) ==
  /\ tx[s].pc = "trig_glob"
  /\ GlobalLockFree(s)
  /\ tx[s].rest = << >>
  /\ tx' = [tx EXCEPT ![s].pc = "commit",
                      ![s].locks = @ \cup {"global"},
                      ![s].new = StoredRow(tx[s].new,
                                           TriggerReturn(tx[s].new,
                                                         tx[s].start)),
                      ![s].wglob = AddGlobal(OwnGlobal(s),
                                             tx[s].new.emissions_saved_lbs,
                                             tx[s].start)]
  /\ UNCHANGED <<user_actions, user_stats, global_emissions, sync_audit_log,
                 now, last>>
  /\ UNCHANGED readvars

\* global_sync_trigger_function, second statement, in a statement that has
\* further rows: the function returns and the trigger of the next row runs
TriggerGlobalNextRow(s) ==
  /\ tx[s].pc = "trig_glob"
  /\ GlobalLockFree(s)
  /\ tx[s].rest # << >>
  /\ tx' = [tx EXCEPT ![s].pc = "trig_stats",
                      ![s].locks = (@ \cup {"global"}) \ {"stats"},
                      ![s].held = @ \cup {tx[s].new.user_id},
                      ![s].pend[tx[s].new.user_id] = tx[s].wstats,
                      ![s].wglob = AddGlobal(OwnGlobal(s),
                                             tx[s].new.emissions_saved_lbs,
                                             tx[s].start),
                      ![s].ev = Head(tx[s].rest),
                      ![s].new = RowSet(Head(tx[s].rest)),
                      ![s].rest = Tail(tx[s].rest)]
  /\ UNCHANGED <<user_actions, user_stats, global_emissions, sync_audit_log,
                 now, last>>
  /\ UNCHANGED readvars

\* the rows a committing append / markVerified transaction makes visible
CommitActions(s) ==
  IF tx[s].kind = "insert"
  THEN Append(user_actions, tx[s].new)
  ELSE IF tx[s].kind = "rows"
  THEN [e \in 1..Len(user_actions) |->
          IF e \in tx[s].rows
          THEN IF TriggerWhen(OldVerified("update", e), TRUE)
               THEN StoredRow(RowSet(e), TriggerReturn(RowSet(e), tx[s].start))
               ELSE RowSet(e)
          ELSE user_actions[e]]
  ELSE [user_actions EXCEPT ![tx[s].ev] = tx[s].new]

\* variant: the user_stats write of the trigger is not part of the commit
CommitStats_Dropped(s) == user_stats

\* variant: the commit rewrites the row of every actor
CommitStats_AllActors(s) ==
  IF "stats" \in tx[s].locks
  THEN [a \in Actors |-> tx[s].wstats]
  ELSE user_stats

CommitStats(s) ==
  IF "stats" \in tx[s].locks
  THEN [a \in Actors |-> IF a = tx[s].new.user_id THEN tx[s].wstats
                         ELSE OwnStats(s, a)]
  ELSE user_stats

CommitGlobal(s) ==
  IF "global" \in tx[s].locks THEN tx[s].wglob ELSE global_emissions

\* the statement and its trigger are one transaction: all writes appear at once
Commit(s) ==
  /\ tx[s].pc = "commit"
  /\ user_actions' = CommitActions(s)
  /\ user_stats' = CommitStats(s)
  /\ global_emissions' = CommitGlobal(s)
  /\ last' = [NoCall EXCEPT
                !.op = IF tx[s].kind = "insert" THEN "append" ELSE "markVerified",
                !.fired = "global" \in tx[s].locks]
  /\ tx' = [tx EXCEPT ![s] = IdleTx]
  /\ UNCHANGED <<sync_audit_log, now>>
  /\ UNCHANGED readvars

\* variant: the trigger's user_stats write survives the failed statement
Rollback_KeepsStats(s) ==
  /\ tx[s].pc # "idle"
  /\ user_stats' = CommitStats(s)
  /\ tx' = [tx EXCEPT ![s] = IdleTx]
  /\ last' = [NoCall EXCEPT !.op = "error",
                             !.fired = "stats" \in tx[s].locks]
  /\ UNCHANGED <<user_actions, global_emissions, sync_audit_log, now>>
  /\ UNCHANGED readvars

\* an error in any statement aborts the transaction: nothing becomes visible
Rollback(s) ==
  /\ tx[s].pc # "idle"
  /\ tx' = [tx EXCEPT ![s] = IdleTx]
  /\ last' = [NoCall EXCEPT !.op = "error",
                             !.fired = "stats" \in tx[s].locks]
  /\ UNCHANGED <<user_actions, user_stats, global_emissions, sync_audit_log,
                 now>>
  /\ UNCHANGED readvars


(***************************************************************************)
(* reconcile: sync_global_emissions_from_user_stats(), one transaction of  *)
(* four statements.  Each SELECT reads what is committed when it runs.     *)
(***************************************************************************)
\* the call starts with its first statement:
\* SELECT COALESCE(SUM(total_emissions_lbs), 0) INTO stats_sum FROM user_stats
SyncBegin(s) ==
  /\ tx[s].pc = "idle"
  /\ now < MaxClock
  /\ now' = now + 1
  /\ tx' = [tx EXCEPT ![s] = [IdleTx EXCEPT
               !.pc = "r_glob", !.kind = "reconcile", !.start = now + 1,
               !.stats_sum = SumStats(user_stats, Actors)]]
  /\ UNCHANGED <<user_actions, user_stats, global_emissions, sync_audit_log,
                 last>>
  /\ UNCHANGED readvars

\* SELECT total_lbs_saved INTO global_val FROM global_emissions WHERE id = 1
SyncSelectGlobal(s) ==
  /\ tx[s].pc = "r_glob"
  /\ tx' = [tx EXCEPT ![s].pc = "r_fix",
                      ![s].global_val = global_emissions.total_lbs_saved]
  /\ UNCHANGED <<user_actions, user_stats, global_emissions, sync_audit_log,
                 now, last>>
  /\ UNCHANGED readvars

\* variant: a difference of exactly 0.01 still counts as in sync
IsSynced_Inclusive(stats_sum, global_val) ==
  Abs(stats_sum - global_val) <= Tolerance

\* variant: in sync only when the two values are equal
IsSynced_Exact(stats_sum, global_val) == stats_sum = global_val

\* is_synced := ABS(stats_sum - global_val) < 0.01
IsSynced(stats_sum, global_val) == Abs(stats_sum - global_val) < Tolerance

\* variant: the repair also resets the count of the global row
FixGlobal_ResetsCount(cur, stats_sum, t) ==
  [cur EXCEPT !.total_lbs_saved = stats_sum, !.total_actions = 0,
              !.last_updated = t]

\* UPDATE global_emissions SET total_lbs_saved = stats_sum, last_updated = NOW()
FixGlobal(cur, stats_sum, t) ==
  [cur EXCEPT !.total_lbs_saved = stats_sum, !.last_updated = t]

\* variant: the discrepancy is logged without ABS
AuditRow_Signed(stats_sum, global_val) ==
  [was_in_sync |-> FALSE, user_stats_sum |-> stats_sum,
   global_total |-> global_val,
   discrepancy |-> stats_sum - global_val, fixed |-> TRUE]

\* the row the correction inserts into sync_audit_log
AuditRow(stats_sum, global_val) ==
  [was_in_sync |-> FALSE, user_stats_sum |-> stats_sum,
   global_total |-> global_val,
   discrepancy |-> Abs(stats_sum - global_val), fixed |-> TRUE]

\* IF NOT is_synced THEN UPDATE ...; INSERT INTO sync_audit_log ...; END IF
SyncFix(s) ==
  /\ tx[s].pc = "r_fix"
  /\ LET synced == IsSynced(tx[s].stats_sum, tx[s].global_val)
     IN IF synced
        THEN tx' = [tx EXCEPT ![s].pc = "r_ret", ![s].is_synced = TRUE]
        ELSE /\ GlobalLockFree(s)
             /\ tx' = [tx EXCEPT ![s].pc = "r_ret",
                                 ![s].is_synced = FALSE,
                                 ![s].locks = @ \cup {"global"},
                                 ![s].wglob = FixGlobal(global_emissions,
                                                        tx[s].stats_sum,
                                                        tx[s].start)]
  /\ UNCHANGED <<user_actions, user_stats, global_emissions, sync_audit_log,
                 now, last>>
  /\ UNCHANGED readvars

\* RETURN QUERY SELECT is_synced, stats_sum, global_val, NOT is_synced
SyncResult(t) ==
  [op |-> "reconcile", fired |-> FALSE, was_in_sync |-> t.is_synced,
   user_stats_sum |-> t.stats_sum, global_total |-> t.global_val,
   fixed |-> ~t.is_synced]

\* the audit log after the pass: one row per correction
SyncAudit(t) ==
  IF t.is_synced THEN sync_audit_log
  ELSE Append(sync_audit_log, AuditRow(t.stats_sum, t.global_val))

SyncReturn(s) ==
  /\ tx[s].pc = "r_ret"
  /\ global_emissions' = CommitGlobal(s)
  /\ sync_audit_log' = SyncAudit(tx[s])
  /\ last' = SyncResult(tx[s])
  /\ tx' = [tx EXCEPT ![s] = IdleTx]
  /\ UNCHANGED <<user_actions, user_stats, now>>
  /\ UNCHANGED readvars

(***************************************************************************)
(* External corruption of the global row: a direct write by a role that    *)
(* bypasses row level security (the table owner), outside the engine.      *)
(***************************************************************************)
Tamper(d) ==
  /\ now < MaxClock
  /\ GlobalLockFree(0)
  /\ now' = now + 1
  /\ global_emissions' =
       [global_emissions EXCEPT !.total_lbs_saved = @ + d]
  /\ last' = [NoCall EXCEPT !.op = "tamper"]
  /\ UNCHANGED <<user_actions, user_stats, sync_audit_log, tx>>
  /\ UNCHANGED readvars

(***************************************************************************)
(* Statements of an authenticated user uid (auth.uid() = uid) on the       *)
(* engine tables.  The role holds the table privileges the application's   *)
(* own inserts and updates of user_actions need, so the row security       *)
(* policies decide: a statement whose rows fail a USING expression, or     *)
(* that has no policy for its command, affects no row; a new row that      *)
(* fails a WITH CHECK expression aborts the statement.                     *)
(***************************************************************************)
\* "Users can insert own actions": WITH CHECK (auth.uid() = user_id)
InsertPolicyCheck(uid, new) == uid = new.user_id

\* variant: the policy lets the owner update verified rows as well
UpdatePolicyUsing_AnyOwn(uid, old) == uid = old.user_id

\* "Users can update own unverified actions":
\* USING (auth.uid() = user_id AND verified = FALSE)
UpdatePolicyUsing(uid, old) == uid = old.user_id /\ old.verified = FALSE

\* WITH CHECK (auth.uid() = user_id)
UpdatePolicyCheck(uid, new) == uid = new.user_id

\* user_actions has no policy FOR DELETE
DeletePolicyUsing(uid, old) == FALSE

\* "System can insert user_stats" WITH CHECK (true), "System can update
\* user_stats" USING (true) WITH CHECK (true): no TO clause, every role
StatsWritePolicy(uid, a) == TRUE

\* global_emissions has no policy FOR INSERT or FOR UPDATE
GlobalWritePolicy(uid) == FALSE

\* INSERT INTO user_actions (user_id, quantity, emissions_saved_lbs,
\* verified) by uid
ActorInsertAction(s, uid, a, quantity, q, v) ==
  LET row == [user_id |-> a, emissions_saved_lbs |-> q, verified |-> v,
              verified_at |-> 0]
  IN IF InsertPolicyCheck(uid, row)
     THEN InsertAction(s, a, quantity, q, v)
     ELSE /\ tx[s].pc = "idle"
          /\ last' = [NoCall EXCEPT !.op = "rls_violation", !.caller = uid]
          /\ UNCHANGED <<user_actions, user_stats, global_emissions,
                         sync_audit_log, tx, now>>
          /\ UNCHANGED readvars

\* UPDATE user_actions SET emissions_saved_lbs = q, verified = v
\* WHERE action_id = e   by uid
ActorUpdateAction(s, uid, e, q, v) ==
  /\ tx[s].pc = "idle"
  /\ e \in 1..Len(user_actions)
  /\ ActionLockFree(s, e)
  /\ LET old == user_actions[e]
         new == [old EXCEPT !.emissions_saved_lbs = q, !.verified = v]
         fire == TriggerWhen(OldVerified("update", e), new.verified)
     IN IF ~UpdatePolicyUsing(uid, old)
        THEN /\ last' = [NoCall EXCEPT !.op = "update_no_rows",
                                       !.caller = uid]
             /\ UNCHANGED <<tx, now>>
        ELSE IF ~UpdatePolicyCheck(uid, new)
        THEN /\ last' = [NoCall EXCEPT !.op = "rls_violation",
                                       !.caller = uid]
             /\ UNCHANGED <<tx, now>>
        ELSE /\ now < MaxClock
             /\ now' = now + 1
             /\ tx' = [tx EXCEPT ![s] = [IdleTx EXCEPT
                          !.pc = IF fire THEN "trig_stats" ELSE "commit",
                          !.kind = "update", !.ev = e, !.new = new,
                          !.start = now + 1, !.locks = {"action"}]]
             /\ last' = [NoCall EXCEPT !.op = "update", !.caller = uid]
  /\ UNCHANGED <<user_actions, user_stats, global_emissions, sync_audit_log>>
  /\ UNCHANGED readvars

\* user_actions without its row e
RemoveAt(acts, e) == SubSeq(acts, 1, e - 1) \o SubSeq(acts, e + 1, Len(acts))

\* DELETE FROM user_actions WHERE action_id = e   by uid
ActorDeleteAction(uid, e) ==
  /\ \A s \in Sessions : tx[s].pc = "idle"
  /\ e \in 1..Len(user_actions)
  /\ IF DeletePolicyUsing(uid, user_actions[e])
     THEN /\ user_actions' = RemoveAt(user_actions, e)
          /\ last' = [NoCall EXCEPT !.op = "delete", !.caller = uid]
     ELSE /\ last' = [NoCall EXCEPT !.op = "delete_no_rows", !.caller = uid]
          /\ UNCHANGED user_actions
  /\ UNCHANGED <<user_stats, global_emissions, sync_audit_log, tx, now>>
  /\ UNCHANGED readvars

\* INSERT INTO user_stats ... ON CONFLICT (user_id) DO UPDATE
\* SET total_emissions_lbs = total   by uid
ActorWriteUserStats(uid, a, total) ==
  /\ now < MaxClock
  /\ StatsLockFree(0, a)
  /\ IF StatsWritePolicy(uid, a)
     THEN /\ user_stats' = [user_stats EXCEPT
                              ![a] = [@ EXCEPT !.present = TRUE,
                                               !.total_emissions_lbs = total]]
          /\ now' = now + 1
          /\ last' = [NoCall EXCEPT !.op = "write_user_stats", !.caller = uid]
     ELSE /\ last' = [NoCall EXCEPT !.op = "rls_violation", !.caller = uid]
          /\ UNCHANGED <<user_stats, now>>
  /\ UNCHANGED <<user_actions, global_emissions, sync_audit_log, tx>>
  /\ UNCHANGED readvars

\* UPDATE global_emissions SET total_lbs_saved = total WHERE id = 1   by uid
ActorWriteGlobal(uid, total) ==
  /\ GlobalLockFree(0)
  /\ IF GlobalWritePolicy(uid)
     THEN /\ global_emissions' =
               [global_emissions EXCEPT !.total_lbs_saved = total]
          /\ last' = [NoCall EXCEPT !.op = "write_global", !.caller = uid]
     ELSE /\ last' = [NoCall EXCEPT !.op = "global_no_rows", !.caller = uid]
          /\ UNCHANGED global_emissions
  /\ UNCHANGED <<user_actions, user_stats, sync_audit_log, tx, now>>
  /\ UNCHANGED readvars

(***************************************************************************)
(* Specifications.                                                         *)
(***************************************************************************)
\* append and markVerified only
NextAggregator ==
  \/ \E s \in Sessions, a \in Actors, quantity \in ValidQuantities,
          q \in Quantities, v \in BOOLEAN :
       InsertAction(s, a, quantity, q, v)
  \/ \E s \in Sessions, e \in 1..MaxEvents : MarkVerified(s, e)
  \/ \E s \in Sessions : TriggerUserStats(s)
  \/ \E s \in Sessions : TriggerGlobal(s)
  \/ \E s \in Sessions : Commit(s)
  \/ \E s \in Sessions : Rollback(s)

NextSync ==
  \/ \E s \in Sessions : SyncBegin(s)
  \/ \E s \in Sessions : SyncSelectGlobal(s)
  \/ \E s \in Sessions : SyncFix(s)
  \/ \E s \in Sessions : SyncReturn(s)

\* append, markVerified and reconcile, no tampering
Next == NextAggregator \/ NextSync

\* append with any quantity, and markVerified
NextAppend ==
  \/ NextAggregator
  \/ \E s \in Sessions, a \in Actors, quantity \in QuantityInputs,
          q \in Quantities, v \in BOOLEAN :
       InsertAction(s, a, quantity, q, v)

\* markVerified by the verification collaborator and the statements of
\* authenticated users on user_actions
NextActor ==
  \/ \E s \in Sessions, e \in 1..MaxEvents : MarkVerified(s, e)
  \/ \E s \in Sessions : TriggerUserStats(s)
  \/ \E s \in Sessions : TriggerGlobal(s)
  \/ \E s \in Sessions : Commit(s)
  \/ \E s \in Sessions : Rollback(s)
  \/ \E s \in ClientSessions, uid \in Actors, a \in Actors,
          q \in Quantities, v \in BOOLEAN :
       ActorInsertAction(s, uid, a, 1, q, v)
  \/ \E s \in ClientSessions, uid \in Actors, e \in 1..MaxEvents,
          q \in Quantities, v \in BOOLEAN : ActorUpdateAction(s, uid, e, q, v)
  \/ \E uid \in Actors, e \in 1..MaxEvents : ActorDeleteAction(uid, e)

\* append and markVerified next to the statements of authenticated users
\* on the rollup tables
NextActorRollups ==
  \/ NextAggregator
  \/ \E uid \in Actors, a \in Actors, total \in Quantities :
       ActorWriteUserStats(uid, a, total)
  \/ \E uid \in Actors, total \in Quantities : ActorWriteGlobal(uid, total)

NextTamper == Next \/ \E d \in TamperDeltas : Tamper(d)

\* the orders in which a statement can find two or more rows
Scans ==
  {scan \in UNION {[1..n -> 1..MaxRows] : n \in 2..MaxRows} :
     \A i, j \in 1..Len(scan) : i # j => scan[i] # scan[j]}

\* a store of MaxRows appended events, none verified yet
InitRows ==
  /\ user_actions \in [1..MaxRows ->
                         [user_id : Actors, emissions_saved_lbs : Quantities,
                          verified : {FALSE}, verified_at : {0}]]
  /\ user_stats = [a \in Actors |-> NoStats]
  /\ global_emissions = NoGlobal
  /\ sync_audit_log = << >>
  /\ tx = [s \in Sessions |-> IdleTx]
  /\ now = 0
  /\ last = NoCall
  /\ db = NoDb
  /\ lb = NoResponse
  /\ rd = NoRead
  /\ page = NoPage

\* markVerified, and verification of several events in one statement
NextRows ==
  \/ \E s \in Sessions, e \in 1..MaxRows : MarkVerified(s, e)
  \/ \E s \in Sessions, scan \in Scans : MarkVerifiedRows(s, scan)
  \/ \E s \in Sessions : TriggerUserStats(s)
  \/ \E s \in Sessions : TriggerGlobal(s)
  \/ \E s \in Sessions : TriggerGlobalNextRow(s)
  \/ \E s \in Sessions : Commit(s)
  \/ \E s \in Sessions : Rollback(s)

SpecRows == InitRows /\ [][NextRows]_vars

SpecAggregator == Init /\ [][NextAggregator]_vars

Spec == Init /\ [][Next]_vars

SpecTamper == Init /\ [][NextTamper]_vars

SpecAppend == Init /\ [][NextAppend]_vars

SpecActor == Init /\ [][NextActor]_vars

SpecActorRollups == Init /\ [][NextActorRollups]_vars

TypeOK ==
  /\ now \in 0..MaxClock
  /\ Len(user_actions) <= MaxEvents
  /\ \A s \in Sessions : tx[s].pc \in {"idle", "trig_stats", "trig_glob",
                                       "commit", "r_glob", "r_fix",
                                       "r_ret"}

(***************************************************************************)
(* The event store as ground truth.                                        *)
(***************************************************************************)
RECURSIVE VerifiedSum(_, _, _)
\* sum of emissions_saved_lbs over the verified rows 1..n of the users in U
VerifiedSum(acts, n, U) ==
  IF n = 0 THEN 0
  ELSE (IF acts[n].verified /\ acts[n].user_id \in U
        THEN acts[n].emissions_saved_lbs ELSE 0)
       + VerifiedSum(acts, n - 1, U)

VerifiedCount(acts, U) ==
  Cardinality({i \in 1..Len(acts) : acts[i].verified /\ acts[i].user_id \in U})

StatsTotal(a) ==
  IF user_stats[a].present THEN user_stats[a].total_emissions_lbs ELSE 0

StatsCount(a) ==
  IF user_stats[a].present THEN user_stats[a].action_count ELSE 0

(***************************************************************************)
(* C1.  Core invariant: in every committed state reached by append and     *)
(* markVerified alone (no reconcile pass, no tampering) the global total   *)
(* differs from the sum of the actor totals by less than 0.01.             *)
(* Checked under SpecAggregator.                                           *)
(***************************************************************************)
C1_GlobalEqualsActorSum ==
  Abs(global_emissions.total_lbs_saved - SumStats(user_stats, Actors))
    < Tolerance

C1_Witness ==
  /\ user_stats["A"].present /\ user_stats["B"].present
  /\ global_emissions.total_actions = 2
  /\ global_emissions.total_lbs_saved = 150

(***************************************************************************)
(* C2.  In the state right after a reconcile pass returns, the global      *)
(* total differs from the sum of the actor totals by less than 0.01,       *)
(* whatever commits while the pass runs.  The committed tables change only *)
(* in steps that set last, so last.op = "reconcile" holds exactly from the *)
(* return of a pass to the next committed change.                          *)
(***************************************************************************)
C2_InSyncAfterReconcile ==
  last.op = "reconcile" => consistency_check.in_sync

(***************************************************************************)
(* C3.  Idempotent verification: a markVerified call on an event that is   *)
(* already verified commits without changing any actor rollup or the       *)
(* global rollup.                                                          *)
(***************************************************************************)
C3_SecondVerifyIsNoOp ==
  [][\A s \in Sessions :
       (Commit(s) /\ tx[s].kind = "update"
                  /\ user_actions[tx[s].ev].verified)
       => (user_stats' = user_stats /\ global_emissions' = global_emissions)
    ]_vars

C3_Witness ==
  /\ last.op = "markVerified" /\ ~last.fired
  /\ global_emissions.total_actions >= 1
  /\ \E e \in 1..Len(user_actions) : user_actions[e].verified

(***************************************************************************)
(* C4.  Monotonicity: no step of any interleaving of append, markVerified  *)
(* and reconcile decreases an actor total or the global total.             *)
(***************************************************************************)
C4_TotalsNeverDecrease ==
  [][/\ global_emissions'.total_lbs_saved >= global_emissions.total_lbs_saved
     /\ \A a \in Actors :
          user_stats'[a].total_emissions_lbs >= user_stats[a].total_emissions_lbs
    ]_vars

(***************************************************************************)
(* C5.  markVerified is atomic: in every committed state the verified      *)
(* flags and the two rollups agree (the rollups carry the delta of exactly *)
(* the events whose flag is set), and a failed transaction leaves the      *)
(* event store and both rollups unchanged.  Checked under SpecAggregator.  *)
(***************************************************************************)
C5_FlagAndRollupsAgree ==
  /\ global_emissions.total_lbs_saved
       = VerifiedSum(user_actions, Len(user_actions), Actors)
  /\ global_emissions.total_actions = VerifiedCount(user_actions, Actors)
  /\ SumStats(user_stats, Actors)
       = VerifiedSum(user_actions, Len(user_actions), Actors)
  /\ SumCounts(user_stats, Actors) = VerifiedCount(user_actions, Actors)

C5_MarkVerifiedAtomic ==
  /\ []C5_FlagAndRollupsAgree
  /\ [][\A s \in Sessions :
          Rollback(s) => UNCHANGED <<user_actions, user_stats, global_emissions>>
       ]_vars

C5_Witness ==
  /\ last.op = "error" /\ last.fired
  /\ Len(user_actions) = 2
  /\ ~user_actions[1].verified /\ user_actions[2].verified
  /\ global_emissions.total_actions = 1

(***************************************************************************)
(* C6.  One verification transition of an event of actor a with savings q  *)
(* adds q to a's total and 1 to a's count (the rollup is created with q    *)
(* and 1 when a has none) and adds q and 1 to the global rollup: the       *)
(* committed rows before and after the commit of a transaction whose       *)
(* trigger fired differ by exactly that.                                   *)
(***************************************************************************)
C6_VerificationAddsDelta ==
  [][\A s \in Sessions :
       (Commit(s) /\ "global" \in tx[s].locks) =>
         LET a == tx[s].new.user_id
             q == tx[s].new.emissions_saved_lbs
         IN /\ user_stats'[a].present
            /\ user_stats'[a].total_emissions_lbs = StatsTotal(a) + q
            /\ user_stats'[a].action_count = StatsCount(a) + 1
            /\ global_emissions'.total_lbs_saved
                 = global_emissions.total_lbs_saved + q
            /\ global_emissions'.total_actions
                 = global_emissions.total_actions + 1
    ]_vars

C6_Witness ==
  /\ last.op = "markVerified" /\ last.fired
  /\ user_stats["A"].present /\ user_stats["A"].action_count = 2
  /\ user_stats["A"].total_emissions_lbs = 150
  /\ global_emissions.total_lbs_saved = 150
  /\ global_emissions.total_actions = 2

(***************************************************************************)
(* C7.  No lost update: an increment a transaction has computed but not    *)
(* yet committed is never stale (it is the committed value plus the        *)
(* event's savings, for the actor row and for the global row), so two      *)
(* concurrent verifications never both build on the same value; and the    *)
(* committed counts and actor totals account for every verified event.     *)
(***************************************************************************)
C7_NoLostUpdate ==
  /\ \A s \in Sessions :
       LET a == tx[s].new.user_id
           q == tx[s].new.emissions_saved_lbs
       IN /\ "stats" \in tx[s].locks =>
               /\ tx[s].wstats.total_emissions_lbs = StatsTotal(a) + q
               /\ tx[s].wstats.action_count = StatsCount(a) + 1
          /\ ("global" \in tx[s].locks /\ tx[s].kind # "reconcile") =>
               /\ tx[s].wglob.total_lbs_saved
                    = global_emissions.total_lbs_saved + q
               /\ tx[s].wglob.total_actions
                    = global_emissions.total_actions + 1
  /\ global_emissions.total_actions = VerifiedCount(user_actions, Actors)
  /\ SumStats(user_stats, Actors)
       = VerifiedSum(user_actions, Len(user_actions), Actors)

\* two verifications of different events of one actor in flight together (one
\* by update, one by an insert of a verified row), the second waiting for the
\* first one's lock on the actor's row
C7_Witness ==
  \E s, o \in Sessions :
    /\ s # o
    /\ tx[s].pc = "commit" /\ "stats" \in tx[s].locks
    /\ tx[o].pc = "trig_stats"
    /\ tx[s].new.user_id = tx[o].new.user_id
    /\ tx[s].kind = "update" /\ tx[o].kind = "insert"

(***************************************************************************)
(* C8.  In every reachable state and for every actor, the rollup total is  *)
(* the sum of the savings of exactly that actor's verified events and the  *)
(* count is their number.                                                  *)
(***************************************************************************)
C8_ActorRollupIsVerifiedSum ==
  \A a \in Actors :
    /\ StatsTotal(a) = VerifiedSum(user_actions, Len(user_actions), {a})
    /\ StatsCount(a) = VerifiedCount(user_actions, {a})
    /\ user_stats[a].present <=> VerifiedCount(user_actions, {a}) > 0

\* one event inserted verified, one verified by update, then a repeated delivery
C8_Witness ==
  /\ last.op = "markVerified" /\ ~last.fired
  /\ \E a \in Actors : StatsCount(a) = 2

(***************************************************************************)
(* C9.  Reconcile repair: a pass whose observed actor sum and observed     *)
(* global total differ by 0.01 or more sets the global total to the actor  *)
(* sum, returns was_in_sync = false and fixed = true, and appends exactly  *)
(* one audit record with the actor sum, the global value observed before   *)
(* the overwrite, their absolute difference and fixed = true.              *)
(***************************************************************************)
C9_ReconcileRepair ==
  [][\A s \in Sessions :
       (SyncReturn(s)
          /\ Abs(tx[s].stats_sum - tx[s].global_val) >= Tolerance) =>
         /\ global_emissions'.total_lbs_saved = tx[s].stats_sum
         /\ last'.op = "reconcile"
         /\ ~last'.was_in_sync /\ last'.fixed
         /\ sync_audit_log' =
              Append(sync_audit_log,
                     [was_in_sync |-> FALSE,
                      user_stats_sum |-> tx[s].stats_sum,
                      global_total |-> tx[s].global_val,
                      discrepancy |-> Abs(tx[s].stats_sum - tx[s].global_val),
                      fixed |-> TRUE])
    ]_vars

\* the global row was corrupted upwards and a pass has repaired it
C9_Witness ==
  /\ last.op = "reconcile" /\ last.fixed
  /\ Len(sync_audit_log) = 1
  /\ sync_audit_log[1].global_total = 200
  /\ sync_audit_log[1].user_stats_sum = 100
  /\ sync_audit_log[1].discrepancy = 100
  /\ global_emissions.total_lbs_saved = 100

(***************************************************************************)
(* C10.  Reconcile in sync: a pass whose observed actor sum and observed   *)
(* global total differ by less than 0.01 reports was_in_sync = true and    *)
(* fixed = false and leaves the global row (total, count, last_updated)    *)
(* and every actor rollup unchanged.                                       *)
(***************************************************************************)
C10_ReconcileInSync ==
  [][\A s \in Sessions :
       (SyncReturn(s)
          /\ Abs(tx[s].stats_sum - tx[s].global_val) < Tolerance) =>
         /\ last'.op = "reconcile"
         /\ last'.was_in_sync /\ ~last'.fixed
         /\ global_emissions' = global_emissions
         /\ user_stats' = user_stats
         /\ "global" \notin tx[s].locks
    ]_vars

\* a pass has reported in sync with a discrepancy of 0.0099
C10_Witness ==
  /\ last.op = "reconcile" /\ last.was_in_sync /\ ~last.fixed
  /\ Abs(last.user_stats_sum - last.global_total) = 99
  /\ sync_audit_log = << >>

(***************************************************************************)
(* C11.  Every reconcile pass, in sync or repairing, appends exactly one   *)
(* audit record: each return of a pass makes the audit log one row longer. *)
(***************************************************************************)
C11_OneAuditRowPerPass ==
  [][\A s \in Sessions :
       SyncReturn(s) => Len(sync_audit_log') = Len(sync_audit_log) + 1
    ]_vars

(***************************************************************************)
(* C12.  Reconcile passes are mutually exclusive: no two passes are at the *)
(* same time between their read of the actor sum and their write of the    *)
(* global total.                                                           *)
(***************************************************************************)
\* the pass of session s has read the actor sum and not yet returned
InPass(s) == tx[s].kind = "reconcile" /\ tx[s].pc \in {"r_glob", "r_fix", "r_ret"}

C12_PassesMutuallyExclusive ==
  \A s, o \in Sessions : (s # o /\ InPass(s)) => ~InPass(o)

(***************************************************************************)
(* C13.  No permanent divergence: from a state in which the global total   *)
(* differs from the actor sum by 0.01 or more and verifications have       *)
(* stopped (none is in flight and, the clock being at its bound, none can  *)
(* start), the next reconcile pass that completes, having observed that    *)
(* diverged global total, restores the invariant.                          *)
(***************************************************************************)
VerificationsStopped ==
  /\ now = MaxClock
  /\ \A s \in Sessions : tx[s].kind \notin {"insert", "update"}

C13_NextPassRestores ==
  [][\A s \in Sessions :
       (SyncReturn(s) /\ VerificationsStopped /\ ~consistency_check.in_sync
          /\ tx[s].global_val = global_emissions.total_lbs_saved)
       => consistency_check'.in_sync
    ]_vars

(***************************************************************************)
(* The leaderboard.                                                        *)
(*                                                                         *)
(* A query result is a set of sequences: ORDER BY fixes the order of two   *)
(* rows only when one sorts strictly before the other, and rows that tie   *)
(* on every sort key come back in whatever order the database produces.    *)
(***************************************************************************)
MaxLimit == 2

Periods == {"all_time", "yearly", "monthly", "weekly"}
Scopes == {"global", "country"}
\* scope values of the country boards; "" is a call without scopeId
Countries == {"US", "IN"}
Country(a) == IF a = "A" THEN "US" ELSE "IN"

Min(a, b) == IF a < b THEN a ELSE b

\* LIMIT n / .limit(n)
Take(q, n) == SubSeq(q, 1, Min(n, Len(q)))

\* the orders in which ORDER BY may return the rows S, before being the
\* pairs <<a, b>> of which a sorts strictly before b
Orderings(S, before) ==
  {f \in [1..Cardinality(S) -> S] :
     /\ \A i, j \in 1..Cardinality(S) : i # j => f[i] # f[j]
     /\ \A i, j \in 1..Cardinality(S) : i < j => <<f[j], f[i]>> \notin before}

\* ROUND(x::NUMERIC, 2) of a non-negative amount, in units of 0.0001
Round2(x) == ((x + 50) \div 100) * 100

(***************************************************************************)
(* get_leaderboard(limit_count), the SQL function.                         *)
(***************************************************************************)
\* COALESCE((SELECT MAX(ua.verified_at) FROM user_actions ua WHERE
\*   ua.user_id = us.user_id AND ua.verified = TRUE), us.last_updated)
last_verified_action_at(a) ==
  LET ts == {user_actions[i].verified_at :
               i \in {j \in 1..Len(user_actions) :
                        /\ user_actions[j].user_id = a
                        /\ user_actions[j].verified
                        /\ user_actions[j].verified_at # 0}}
  IN IF ts = {} THEN user_stats[a].last_updated
     ELSE CHOOSE t \in ts : \A u \in ts : u <= t

\* FROM user_stats us JOIN users u ... WHERE us.total_emissions_lbs > 0
ranked_users ==
  {a \in Actors : user_stats[a].present
                  /\ user_stats[a].total_emissions_lbs > 0}

\* ORDER BY total_emissions_lbs DESC, last_verified_action_at DESC
RankedBefore(a, b) ==
  \/ user_stats[a].total_emissions_lbs > user_stats[b].total_emissions_lbs
  \/ /\ user_stats[a].total_emissions_lbs = user_stats[b].total_emissions_lbs
     /\ last_verified_action_at(a) > last_verified_action_at(b)

\* ROW_NUMBER() OVER (ORDER BY ...) AS rank, ... ORDER BY ... LIMIT limit_count
get_leaderboard(limit_count) ==
  {[i \in 1..Min(limit_count, Cardinality(ranked_users)) |->
      [rank |-> i,
       user_id |-> f[i],
       total_emissions_lbs |-> Round2(user_stats[f[i]].total_emissions_lbs),
       action_count |-> user_stats[f[i]].action_count,
       last_update_timestamp |-> user_stats[f[i]].last_updated]] :
     f \in Orderings(ranked_users,
                     {p \in ranked_users \X ranked_users :
                        RankedBefore(p[1], p[2])})}

(***************************************************************************)
(* calculateLeaderboardFromStats(period, limit).  Entry amounts            *)
(* (co2_saved_kg) are kept in units of 0.000000000025 kg so that the       *)
(* division by 4 and the factor 0.453592 are exact.                        *)
(***************************************************************************)
\* parseFloat of a stored amount (0.0001 kg units)
KgValue(v) == v * 4000000

\* .from(t).select(...).order('total_co2_saved_kg', {ascending: false}).limit(limit)
StatsBefore(t, a, b) ==
  t.rows[a].total_co2_saved_kg > t.rows[b].total_co2_saved_kg

StatsQuery(t, limit) ==
  IF t.status # "ok"
  THEN {[error |-> TRUE, thrown |-> t.status = "throw", data |-> << >>]}
  ELSE {[error |-> FALSE, thrown |-> FALSE,
         data |-> Take([i \in 1..Len(f) |->
                          [user_id |-> f[i],
                           total_co2_saved_kg |-> t.rows[f[i]].total_co2_saved_kg,
                           current_year_co2 |-> t.rows[f[i]].current_year_co2,
                           current_month_co2 |-> t.rows[f[i]].current_month_co2]],
                       limit)] :
          f \in Orderings({a \in Actors : t.rows[a].present},
                          {p \in Actors \X Actors :
                             StatsBefore(t, p[1], p[2])})}

\* variant: weekly is read from the yearly field
getCo2Value_WeeklyFromYear(stat, period) ==
  CASE period = "yearly" -> KgValue(stat.current_year_co2)
    [] period = "monthly" -> KgValue(stat.current_month_co2)
    [] period = "weekly" -> KgValue(stat.current_year_co2) \div 4
    [] OTHER -> KgValue(stat.total_co2_saved_kg)

\* const getCo2Value = (stat) => { switch (period) ... }
getCo2Value(stat, period) ==
  CASE period = "yearly" -> KgValue(stat.current_year_co2)
    [] period = "monthly" -> KgValue(stat.current_month_co2)
    [] period = "weekly" -> KgValue(stat.current_month_co2) \div 4
    [] OTHER -> KgValue(stat.total_co2_saved_kg)

RECURSIVE InsertDesc(_, _)
\* e placed behind every entry whose amount is not smaller
InsertDesc(sorted, e) ==
  IF sorted = << >> THEN <<e>>
  ELSE IF Head(sorted).co2_saved_kg >= e.co2_saved_kg
       THEN <<Head(sorted)>> \o InsertDesc(Tail(sorted), e)
       ELSE <<e>> \o sorted

RECURSIVE SortDesc(_)
\* .sort((a, b) => b.co2_saved_kg - a.co2_saved_kg): Array.prototype.sort is stable
SortDesc(q) ==
  IF q = << >> THEN << >>
  ELSE InsertDesc(SortDesc(SubSeq(q, 1, Len(q) - 1)), q[Len(q)])

\* stats.map((stat, index) => ({rank: index + 1, ...})).sort(...)
EntriesFromStats(data, period) ==
  SortDesc([i \in 1..Len(data) |->
              [rank |-> i, user_id |-> data[i].user_id,
               co2_saved_kg |-> getCo2Value(data[i], period),
               period |-> period]])

\* getLeaderboard(limit) of ./leaderboard, the legacy service over the SQL function
getLeaderboard(limit) == get_leaderboard(limit)

\* entries.map((entry, index) => ({rank: index + 1, ...
\*   co2_saved_kg: entry.total_emissions_lbs * 0.453592, period: 'all_time'}))
EntriesFromLegacy(entries) ==
  [i \in 1..Len(entries) |->
     [rank |-> i, user_id |-> entries[i].user_id,
      co2_saved_kg |-> entries[i].total_emissions_lbs * 453592 * 4,
      period |-> "all_time"]]

\* what the function returns once it holds the result r of its last stats
\* query: the path taken, the rows read (stats) and the entries returned
FromStatsResult(r, period, limit) ==
  IF r.error
  THEN {[path |-> "legacy", stats |-> << >>,
          entries |-> EntriesFromLegacy(e)] : e \in getLeaderboard(limit)}
  ELSE {[path |-> "stats", stats |-> r.data,
         entries |-> EntriesFromStats(r.data, period)]}

\* catch (error) { console.error(...); return []; }
CaughtLeaderboard == [path |-> "caught", stats |-> << >>, entries |-> << >>]

calculateLeaderboardFromStats(period, limit) ==
  UNION {IF r1.thrown THEN {CaughtLeaderboard}
         ELSE IF r1.error \/ Len(r1.data) = 0
         THEN UNION {IF r2.thrown THEN {CaughtLeaderboard}
                     ELSE FromStatsResult(r2, period, limit) :
                       r2 \in StatsQuery(db.user_statistics, limit)}
         ELSE FromStatsResult(r1, period, limit) :
           r1 \in StatsQuery(db.user_stats_summary, limit)}

(***************************************************************************)
(* getLeaderboardEntries(period, scope, scopeId, limit).  A stored ranking *)
(* row is [scope, scope_value, period, user_id, rank, co2_saved_kg]; the   *)
(* column scope_value of leaderboard_snapshots is called scope_id in       *)
(* leaderboards.  scopeId = "" is a call without scopeId.                  *)
(***************************************************************************)
\* .eq('scope', scope).eq('period', period)[.eq(<scope column>, v) for the
\* v of values].order('rank', {ascending: true}).limit(limit)
BoardQuery(t, period, scope, values, limit) ==
  IF t.status # "ok"
  THEN {[error |-> TRUE, thrown |-> t.status = "throw", data |-> << >>]}
  ELSE {[error |-> FALSE, thrown |-> FALSE, data |-> Take(f, limit)] :
          f \in Orderings({r \in t.rows : /\ r.scope = scope
                                         /\ r.period = period
                                         /\ r.scope_value \in values},
                          {p \in t.rows \X t.rows : p[1].rank < p[2].rank})}

AllScopeValues == {"global"} \cup Countries

\* if (scope === 'country' && scopeId) ... else if (scope === 'global') ...
SnapshotScopeValues(scope, scopeId) ==
  IF scope = "country" /\ scopeId # "" THEN {scopeId}
  ELSE IF scope = "global" THEN {"global"}
  ELSE AllScopeValues

\* if (scope === 'country' && scopeId) prevQuery = prevQuery.eq('scope_id', scopeId)
PrevScopeValues(scope, scopeId) ==
  IF scope = "country" /\ scopeId # "" THEN {scopeId} ELSE AllScopeValues

\* data.map(entry => ({rank: entry.rank, user_id: entry.user_id,
\*   co2_saved_kg: parseFloat(entry.co2_saved_kg || 0), period: entry.period}))
EntriesFromBoard(data) ==
  [i \in 1..Len(data) |->
     [rank |-> data[i].rank, user_id |-> data[i].user_id,
      co2_saved_kg |-> KgValue(data[i].co2_saved_kg),
      period |-> data[i].period]]

getLeaderboardEntries(period, scope, scopeId, limit) ==
  UNION {IF r1.thrown THEN calculateLeaderboardFromStats(period, limit)
         ELSE IF ~r1.error /\ Len(r1.data) > 0
         THEN {[path |-> "leaderboard_snapshots", stats |-> << >>,
                entries |-> EntriesFromBoard(r1.data)]}
         ELSE UNION {IF ~r2.error /\ Len(r2.data) > 0
                     THEN {[path |-> "leaderboards", stats |-> << >>,
                            entries |-> EntriesFromBoard(r2.data)]}
                     ELSE calculateLeaderboardFromStats(period, limit) :
                       r2 \in BoardQuery(db.leaderboards, period, scope,
                                         PrevScopeValues(scope, scopeId),
                                         limit)} :
           r1 \in BoardQuery(db.leaderboard_snapshots, period, scope,
                             SnapshotScopeValues(scope, scopeId), limit)}

(***************************************************************************)
(* The states a leaderboard call can find.  user_stats_summary,            *)
(* user_statistics, leaderboard_snapshots and leaderboards are written by  *)
(* the newer schema generations, whose writers are outside this            *)
(* repository: a deployment either has a table (with any rows its columns  *)
(* admit) or not.  The legacy tables are as the trigger leaves them after  *)
(* the verified events of the actors: one row of user_stats per actor with *)
(* a verified event, stamped with the start time of the verifying          *)
(* transaction.                                                            *)
(***************************************************************************)
KgAmounts == {0, 4, 8, 12}

\* a row of user_stats_summary / user_statistics with its last_action_date d
SummaryRows(d) ==
  {[present |-> TRUE, total_co2_saved_kg |-> t, current_year_co2 |-> y,
    current_month_co2 |-> m, total_actions |-> 1, last_action_date |-> d] :
     <<t, y, m>> \in {x \in KgAmounts \X KgAmounts \X KgAmounts :
                        x[3] <= x[2] /\ x[2] <= x[1]}}

\* A's last action, if any, is the older one
StatsTables ==
  {[status |-> "ok", rows |-> [a \in Actors |-> IF a = "A" THEN ra ELSE rb]] :
     <<ra, rb>> \in ({NoSummaryRow} \cup SummaryRows(1))
                      \X ({NoSummaryRow} \cup SummaryRows(2))}

\* the stored ranking of the users in order f for one scope value and period
BoardRows(scope, value, period, f) ==
  {[scope |-> scope, scope_value |-> value, period |-> period,
    user_id |-> f[i], rank |-> i, co2_saved_kg |-> 16 - 4 * i] :
     i \in 1..Len(f)}

\* a global ranking of both actors and one ranking per country
BoardTables ==
  {[status |-> "ok",
    rows |-> BoardRows("global", "global", p, f)
               \cup UNION {BoardRows("country", Country(a), p, <<a>>) :
                             a \in Actors}] :
     p \in Periods, f \in {<<"A", "B">>, <<"B", "A">>}}

\* user_stats after one verified event of each actor in the domain of ev,
\* ev[a] = <<emissions_saved_lbs, start time of the verifying transaction>>
LegacyStats(ev) ==
  [a \in Actors |->
     IF a \in DOMAIN ev
     THEN [present |-> TRUE, total_emissions_lbs |-> ev[a][1],
           action_count |-> 1, last_updated |-> ev[a][2]]
     ELSE NoStats]

RECURSIVE LegacyActions(_, _)
\* the verified events behind LegacyStats(ev), oldest first, up to time t
LegacyActions(ev, t) ==
  IF t = 0 THEN << >>
  ELSE LegacyActions(ev, t - 1)
       \o (IF \E a \in DOMAIN ev : ev[a][2] = t
           THEN LET a == CHOOSE x \in DOMAIN ev : ev[x][2] = t
                IN <<[user_id |-> a, emissions_saved_lbs |-> ev[a][1],
                      verified |-> TRUE, verified_at |-> 0]>>
           ELSE << >>)

LegacyEvents ==
  {ev \in UNION {[U -> Quantities \X (1..MaxClock)] : U \in SUBSET Actors} :
     /\ Cardinality(DOMAIN ev) <= MaxEvents
     /\ \A a, b \in DOMAIN ev : a # b => ev[a][2] # ev[b][2]}

LastTime(ev) ==
  IF DOMAIN ev = {} THEN 0
  ELSE CHOOSE t \in 1..MaxClock :
         /\ \E a \in DOMAIN ev : ev[a][2] = t
         /\ \A a \in DOMAIN ev : ev[a][2] <= t

InitLeaderboard ==
  /\ sync_audit_log = << >>
  /\ tx = [s \in Sessions |-> IdleTx]
  /\ last = NoCall
  /\ lb = NoResponse
  /\ rd = NoRead
  /\ page = NoPage
  /\ \E ev \in LegacyEvents :
       /\ user_stats = LegacyStats(ev)
       /\ user_actions = LegacyActions(ev, MaxClock)
       /\ global_emissions =
            IF DOMAIN ev = {} THEN NoGlobal
            ELSE [total_lbs_saved |-> SumStats(LegacyStats(ev), Actors),
                  total_actions |-> Cardinality(DOMAIN ev),
                  last_updated |-> LastTime(ev)]
       /\ now = LastTime(ev)
       /\ \/ \* legacy deployment: no table of a newer generation
             db = [NoDb EXCEPT
                          !.leaderboard_snapshots = FailedBoardTable,
                          !.leaderboards = FailedBoardTable,
                          !.user_stats_summary = FailedStatsTable,
                          !.user_statistics = FailedStatsTable]
          \/ \* newer schema just installed: its tables exist and are empty
             db = [NoDb EXCEPT !.leaderboards = FailedBoardTable]
          \/ \* production schema without stored rankings
             /\ ev = << >>
             /\ \E t \in StatsTables :
                  db = [NoDb EXCEPT
                               !.leaderboard_snapshots = EmptyBoardTable,
                               !.leaderboards = FailedBoardTable,
                               !.user_stats_summary = t,
                               !.user_statistics = FailedStatsTable]
          \/ \* previous schema without stored rankings
             /\ ev = << >>
             /\ \E t \in StatsTables :
                  db = [NoDb EXCEPT
                               !.leaderboard_snapshots = FailedBoardTable,
                               !.leaderboards = EmptyBoardTable,
                               !.user_stats_summary = FailedStatsTable,
                               !.user_statistics = t]
          \/ \* production schema with stored rankings
             /\ ev = << >>
             /\ \E t \in BoardTables :
                  db = [NoDb EXCEPT
                               !.leaderboard_snapshots = t,
                               !.leaderboards = FailedBoardTable,
                               !.user_stats_summary = EmptyStatsTable,
                               !.user_statistics = FailedStatsTable]
          \/ \* previous schema with stored rankings
             /\ ev = << >>
             /\ \E t \in BoardTables :
                  db = [NoDb EXCEPT
                               !.leaderboard_snapshots = FailedBoardTable,
                               !.leaderboards = t,
                               !.user_stats_summary = FailedStatsTable,
                               !.user_statistics = EmptyStatsTable]

Limits == 1..MaxLimit

\* the scopeId arguments tried with a scope: none, or a country for 'country'
ScopeIds(scope) == IF scope = "global" THEN {""} ELSE {""} \cup Countries

\* supabase.rpc('get_leaderboard', {limit_count: limit})
CallGetLeaderboard(limit) ==
  /\ \E rows \in get_leaderboard(limit) :
       lb' = [call |-> "get_leaderboard", period |-> "all_time",
              scope |-> "global", scopeId |-> "", limit |-> limit,
              path |-> "rpc", stats |-> << >>, entries |-> rows]
  /\ UNCHANGED <<user_actions, user_stats, global_emissions, sync_audit_log,
                 tx, now, last, db, rd, page>>

CallGetLeaderboardEntries(period, scope, scopeId, limit) ==
  /\ \E r \in getLeaderboardEntries(period, scope, scopeId, limit) :
       lb' = [call |-> "getLeaderboardEntries", period |-> period,
              scope |-> scope, scopeId |-> scopeId, limit |-> limit,
              path |-> r.path, stats |-> r.stats, entries |-> r.entries]
  /\ UNCHANGED <<user_actions, user_stats, global_emissions, sync_audit_log,
                 tx, now, last, db, rd, page>>

NextLeaderboard ==
  \/ \E limit \in Limits : CallGetLeaderboard(limit)
  \/ \E period \in Periods, scope \in Scopes, limit \in Limits :
       \E scopeId \in ScopeIds(scope) :
         CallGetLeaderboardEntries(period, scope, scopeId, limit)

SpecLeaderboard == InitLeaderboard /\ [][NextLeaderboard]_vars

(***************************************************************************)
(* What a response says about the tables it was computed from.             *)
(***************************************************************************)
\* the stats table the computed path read: user_stats_summary unless it
\* failed or was empty
StatsTableRead ==
  IF db.user_stats_summary.status = "ok"
     /\ \E a \in Actors : db.user_stats_summary.rows[a].present
  THEN db.user_stats_summary
  ELSE db.user_statistics

\* the time of the actor's most recent verified event
LastVerifiedAt(a) ==
  IF lb.path = "stats" THEN StatsTableRead.rows[a].last_action_date
  ELSE last_verified_action_at(a)

\* the row of user u among the rows the computed path read
StatOf(u) == lb.stats[CHOOSE k \in 1..Len(lb.stats) : lb.stats[k].user_id = u]

\* the value that entry i of the response shows
EntryValue(i) ==
  IF lb.path = "rpc" THEN lb.entries[i].total_emissions_lbs
  ELSE lb.entries[i].co2_saved_kg

\* the scoped value of actor a for the period of the response: the stored
\* total on the legacy tables, the period's field on the stats tables
ScopedValue(a) ==
  IF lb.path \in {"rpc", "legacy"} THEN user_stats[a].total_emissions_lbs
  ELSE LET row == StatsTableRead.rows[a]
       IN CASE lb.period = "yearly" -> KgValue(row.current_year_co2)
            [] lb.period = "monthly" -> KgValue(row.current_month_co2)
            [] lb.period = "weekly" -> KgValue(row.current_month_co2) \div 4
            [] OTHER -> KgValue(row.total_co2_saved_kg)

\* the actors of the table a ranking is computed from
RankedFrom ==
  IF lb.path \in {"rpc", "legacy"} THEN {a \in Actors : user_stats[a].present}
  ELSE {a \in Actors : StatsTableRead.rows[a].present}

\* the response was computed (SQL function or stats fallback), not read from
\* a stored ranking, and for the period that was asked for
Computed ==
  \/ lb.path \in {"rpc", "stats"}
  \/ lb.path = "legacy" /\ lb.period = "all_time"

\* the sequence of (rank, actor) of a response
RankActor(r) ==
  [i \in 1..Len(r.entries) |-> <<r.entries[i].rank, r.entries[i].user_id>>]

(***************************************************************************)
(* C14.  A computed leaderboard is ordered by scoped value descending, and *)
(* of two eligible actors (value > 0) with exactly equal values the one    *)
(* whose most recent verified event is later comes first.  Checked under   *)
(* SpecLeaderboard.                                                        *)
(***************************************************************************)
C14_TieBrokenByLatestVerification ==
  Computed =>
    \A i, j \in 1..Len(lb.entries) :
      LET a == lb.entries[i].user_id
          b == lb.entries[j].user_id
      IN (i < j /\ ScopedValue(a) > 0 /\ ScopedValue(b) > 0) =>
           \/ ScopedValue(a) > ScopedValue(b)
           \/ /\ ScopedValue(a) = ScopedValue(b)
              /\ LastVerifiedAt(a) >= LastVerifiedAt(b)

(***************************************************************************)
(* C15.  Rank contiguity: the rank numbers of every response of size N,    *)
(* on every source path, are exactly 1..N.  Checked under SpecLeaderboard. *)
(***************************************************************************)
C15_RanksContiguous ==
  lb.call # "none" =>
    /\ {lb.entries[i].rank : i \in 1..Len(lb.entries)} = 1..Len(lb.entries)
    /\ \A i, j \in 1..Len(lb.entries) :
         i # j => lb.entries[i].rank # lb.entries[j].rank

(***************************************************************************)
(* C16.  Rank equals position: in a response that lists eligible actors    *)
(* only (value > 0) the entry at position i carries rank i, for every      *)
(* period.  Checked under SpecLeaderboard.                                 *)
(***************************************************************************)
C16_RankEqualsPosition ==
  (lb.call # "none" /\ \A i \in 1..Len(lb.entries) : EntryValue(i) > 0) =>
    \A i \in 1..Len(lb.entries) : lb.entries[i].rank = i

(***************************************************************************)
(* C17.  Limit after ordering: a computed response over actors that all    *)
(* have a positive value for the period holds at most limit entries in     *)
(* descending order of that value, and every actor that has fewer than     *)
(* limit other actors at or above it is in the response.  Checked under    *)
(* SpecLeaderboard.                                                        *)
(***************************************************************************)
C17_LimitAfterOrdering ==
  (Computed /\ \A a \in RankedFrom : ScopedValue(a) > 0) =>
    /\ Len(lb.entries) <= lb.limit
    /\ \A i, j \in 1..Len(lb.entries) :
         i < j => ScopedValue(lb.entries[i].user_id)
                    >= ScopedValue(lb.entries[j].user_id)
    /\ \A a \in RankedFrom :
         (/\ ScopedValue(a) > 0
          /\ Cardinality({b \in RankedFrom \ {a} :
                            ScopedValue(b) >= ScopedValue(a)}) < lb.limit)
         => \E i \in 1..Len(lb.entries) : lb.entries[i].user_id = a

(***************************************************************************)
(* C18.  Eligibility: every entry of every response shows a value > 0.     *)
(* Checked under SpecLeaderboard.                                          *)
(***************************************************************************)
C18_OnlyPositiveValues ==
  lb.call # "none" =>
    \A i \in 1..Len(lb.entries) : EntryValue(i) > 0

(***************************************************************************)
(* C19.  Determinism: a call repeated with the same arguments on unchanged *)
(* tables, both responses listing eligible actors only (value > 0),        *)
(* returns the same sequence of (rank, actor) as the call before.  Checked *)
(* under SpecLeaderboard, whose steps change no table.                     *)
(***************************************************************************)
C19_SameCallSameRanking ==
  [][(/\ lb.call # "none"
      /\ \A i \in 1..Len(lb.entries) : EntryValue(i) > 0
      /\ \A i \in 1..Len(lb'.entries) : EntryValue(i)' > 0
      /\ lb'.call = lb.call
      /\ lb'.period = lb.period
      /\ lb'.scope = lb.scope
      /\ lb'.scopeId = lb.scopeId
      /\ lb'.limit = lb.limit
      /\ db' = db /\ user_stats' = user_stats /\ user_actions' = user_actions)
     => RankActor(lb') = RankActor(lb)]_vars

(***************************************************************************)
(* C20.  Source value per period on the computed path: the entry of an     *)
(* actor shows its total for all_time, its yearly or monthly partial sum   *)
(* for yearly and monthly, and for weekly exactly a quarter of its monthly *)
(* partial sum; a weekly response lists the actors in the order of the     *)
(* monthly response over the same rows.  Checked under SpecLeaderboard.    *)
(***************************************************************************)
C20_SourceValuePerPeriod ==
  lb.path = "stats" =>
    /\ \A i \in 1..Len(lb.entries) :
         LET stat == StatOf(lb.entries[i].user_id)
             v == lb.entries[i].co2_saved_kg
         IN CASE lb.period = "all_time" -> v = KgValue(stat.total_co2_saved_kg)
              [] lb.period = "yearly" -> v = KgValue(stat.current_year_co2)
              [] lb.period = "monthly" -> v = KgValue(stat.current_month_co2)
              [] lb.period = "weekly" ->
                   4 * v = KgValue(stat.current_month_co2)
    /\ lb.period = "weekly" =>
         LET monthly == EntriesFromStats(lb.stats, "monthly")
         IN /\ Len(monthly) = Len(lb.entries)
            /\ \A i \in 1..Len(lb.entries) :
                 lb.entries[i].user_id = monthly[i].user_id

\* a weekly response of two actors whose monthly sums differ from their
\* yearly sums and order them against their totals
C20_Witness ==
  /\ lb.path = "stats" /\ lb.period = "weekly" /\ Len(lb.entries) = 2
  /\ lb.entries[1].rank = 2
  /\ lb.entries[1].co2_saved_kg > lb.entries[2].co2_saved_kg
  /\ lb.entries[2].co2_saved_kg > 0
  /\ \A i \in 1..2 :
       StatOf(lb.entries[i].user_id).current_year_co2
         # StatOf(lb.entries[i].user_id).current_month_co2

(***************************************************************************)
(* The read adapter: getUserStatistics, getGlobalStatistics and            *)
(* getRecentActionLogs of services/climateStats.ts, getUserTotal and       *)
(* getGlobalTotal of the emission logging service.  A response is          *)
(* [source, result, total, count, users, entries]: the table the data was  *)
(* taken from, "value" or "null" or "raised" (an exception reaches the     *)
(* caller), and the fields of the returned value.  Amounts in kg are in    *)
(* units of 0.000000000025 kg as on the leaderboard, amounts in lb in      *)
(* units of 0.0001 lb.  The savings column of user_actions                 *)
(* (custom_emissions_saved in the services, emissions_saved_lbs in the     *)
(* migration) is the field emissions_saved_lbs of the model's rows.        *)
(***************************************************************************)
\* emissionsLbs * 0.453592
LbsToKg(lbs) == lbs * 453592 * 4

NullRead == [source |-> "none", result |-> "null", total |-> 0, count |-> 0,
             users |-> 0, entries |-> << >>]

ValueRead(source, total, count, users, entries) ==
  [source |-> source, result |-> "value", total |-> total, count |-> count,
   users |-> users, entries |-> entries]

RECURSIVE SumActions(_, _, _)
\* the savings of the rows 1..n of user_actions of the users in U, verified or not
SumActions(acts, n, U) ==
  IF n = 0 THEN 0
  ELSE (IF acts[n].user_id \in U THEN acts[n].emissions_saved_lbs ELSE 0)
       + SumActions(acts, n - 1, U)

CountActions(acts, U) ==
  Cardinality({i \in 1..Len(acts) : acts[i].user_id \in U})

\* variant: the fallback has no try/catch of its own
calculateUserStatisticsFromActions_NoCatch(userId) ==
  CASE db.legacy.user_actions = "throw" -> [NullRead EXCEPT !.result = "raised"]
    [] db.legacy.user_actions = "error" -> NullRead
    [] OTHER ->
         ValueRead("user_actions",
                   LbsToKg(SumActions(user_actions, Len(user_actions), {userId})),
                   CountActions(user_actions, {userId}), 0, << >>)

\* .from('user_actions').select(...).eq('user_id', userId); every row counts
calculateUserStatisticsFromActions(userId) ==
  CASE db.legacy.user_actions = "throw" -> NullRead
    [] db.legacy.user_actions = "error" -> NullRead
    [] OTHER ->
         ValueRead("user_actions",
                   LbsToKg(SumActions(user_actions, Len(user_actions), {userId})),
                   CountActions(user_actions, {userId}), 0, << >>)

\* .from(table).select('*').eq('user_id', userId).maybeSingle()
UserRowFound(t, userId) == t.status = "ok" /\ t.rows[userId].present

UserStatisticsFrom(table, row) ==
  ValueRead(table, KgValue(row.total_co2_saved_kg), row.total_actions, 0, << >>)

getUserStatistics(userId) ==
  LET prod == db.user_stats_summary
      prev == db.user_statistics
  IN CASE prod.status = "throw" -> calculateUserStatisticsFromActions(userId)
       [] UserRowFound(prod, userId) ->
            UserStatisticsFrom("user_stats_summary", prod.rows[userId])
       [] prev.status = "throw" -> calculateUserStatisticsFromActions(userId)
       [] UserRowFound(prev, userId) ->
            UserStatisticsFrom("user_statistics", prev.rows[userId])
       [] OTHER -> calculateUserStatisticsFromActions(userId)

\* the profiles table holds one row per user of the application
ProfilesCount == Cardinality(Actors)

\* global_emissions, profiles and user_actions are read one after the other;
\* a failed query leaves its value at 0, an exception ends in the catch
calculateGlobalStatisticsFromExisting ==
  IF "throw" \in {db.legacy.global_emissions, db.legacy.profiles,
                  db.legacy.user_actions}
  THEN NullRead
  ELSE ValueRead(IF db.legacy.global_emissions = "ok"
                 THEN "global_emissions" ELSE "none",
                 IF db.legacy.global_emissions = "ok"
                 THEN LbsToKg(global_emissions.total_lbs_saved) ELSE 0,
                 IF db.legacy.user_actions = "ok"
                 THEN Len(user_actions) ELSE 0,
                 IF db.legacy.profiles = "ok" THEN ProfilesCount ELSE 0,
                 << >>)

\* .from(table).select('*').eq(...).single()
GlobalRowFound(t) == t.status = "ok" /\ t.row.present

GlobalStatisticsFrom(table, row) ==
  ValueRead(table, KgValue(row.total_co2_saved_kg), row.total_actions,
            row.total_users, << >>)

getGlobalStatistics ==
  LET rollup == db.global_stats_rollup
      prev == db.global_statistics
  IN CASE rollup.status = "throw" -> calculateGlobalStatisticsFromExisting
       [] GlobalRowFound(rollup) ->
            GlobalStatisticsFrom("global_stats_rollup", rollup.row)
       [] prev.status = "throw" -> calculateGlobalStatisticsFromExisting
       [] GlobalRowFound(prev) ->
            GlobalStatisticsFrom("global_statistics", prev.row)
       [] OTHER -> calculateGlobalStatisticsFromExisting

\* the rows of q that .eq('user_id', userId) keeps; userId = "" is a call
\* without userId
RECURSIVE OfUser(_, _)
OfUser(q, userId) ==
  IF q = << >> THEN << >>
  ELSE (IF userId = "" \/ Head(q).user_id = userId THEN <<Head(q)>> ELSE << >>)
       \o OfUser(Tail(q), userId)

\* user_actions newest first (.order('logged_at', {ascending: false}))
NewestFirst(acts) == [i \in 1..Len(acts) |-> acts[Len(acts) + 1 - i]]

getRecentActionsFromOldSchema(userId, limit) ==
  IF db.legacy.user_actions # "ok"
  THEN ValueRead("none", 0, 0, 0, << >>)
  ELSE LET data == Take(OfUser(NewestFirst(user_actions), userId), limit)
       IN ValueRead("user_actions", 0, 0, 0,
                    [i \in 1..Len(data) |->
                       [log_id |-> i, user_id |-> data[i].user_id,
                        co2_saved_kg |-> LbsToKg(data[i].emissions_saved_lbs)]])

\* .from(table).select('*').order(..., {ascending: false}).limit(limit)
LogQuery(t, userId, limit) ==
  IF t.status = "ok" THEN Take(OfUser(t.rows, userId), limit) ELSE << >>

ActionLogsFrom(table, data) ==
  ValueRead(table, 0, 0, 0,
            [i \in 1..Len(data) |->
               [log_id |-> data[i].log_id, user_id |-> data[i].user_id,
                co2_saved_kg |-> KgValue(data[i].co2_saved_kg)]])

getRecentActionLogs(userId, limit) ==
  LET events == db.user_action_events
      logs == db.user_action_logs
  IN CASE events.status = "throw" -> getRecentActionsFromOldSchema(userId, limit)
       [] Len(LogQuery(events, userId, limit)) > 0 ->
            ActionLogsFrom("user_action_events", LogQuery(events, userId, limit))
       [] logs.status = "throw" -> getRecentActionsFromOldSchema(userId, limit)
       [] Len(LogQuery(logs, userId, limit)) > 0 ->
            ActionLogsFrom("user_action_logs", LogQuery(logs, userId, limit))
       [] OTHER -> getRecentActionsFromOldSchema(userId, limit)

\* the total of the user's actions, verified or not; 0 on any failure
calculateUserTotalFromActions(userId) ==
  IF db.legacy.user_actions # "ok"
  THEN ValueRead("none", 0, 0, 0, << >>)
  ELSE ValueRead("user_actions",
                 SumActions(user_actions, Len(user_actions), {userId}),
                 0, 0, << >>)

\* supabase.rpc('get_user_total', {p_user_id: userId})
get_user_total(userId) == StatsTotal(userId)

getUserTotal(userId) ==
  CASE db.legacy.rpc = "throw" -> calculateUserTotalFromActions(userId)
    [] db.legacy.rpc = "ok" ->
         ValueRead("get_user_total", get_user_total(userId), 0, 0, << >>)
    [] db.legacy.user_stats = "throw" -> calculateUserTotalFromActions(userId)
    [] db.legacy.user_stats = "error" \/ ~user_stats[userId].present ->
         calculateUserTotalFromActions(userId)
    [] OTHER ->
         ValueRead("user_stats", user_stats[userId].total_emissions_lbs,
                   0, 0, << >>)

\* user_stats summed by the client; 0 on any failure
calculateGlobalTotalFromUserStats ==
  IF db.legacy.user_stats # "ok"
  THEN ValueRead("none", 0, 0, 0, << >>)
  ELSE ValueRead("user_stats", SumStats(user_stats, Actors), 0, 0, << >>)

\* supabase.rpc('get_global_total')
get_global_total == global_emissions.total_lbs_saved

getGlobalTotal ==
  CASE db.legacy.rpc = "throw" -> calculateGlobalTotalFromUserStats
    [] db.legacy.rpc = "ok" ->
         ValueRead("get_global_total", get_global_total, 0, 0, << >>)
    [] db.legacy.global_emissions = "throw" -> calculateGlobalTotalFromUserStats
    [] db.legacy.global_emissions = "error" -> calculateGlobalTotalFromUserStats
    [] OTHER ->
         ValueRead("global_emissions", global_emissions.total_lbs_saved,
                   0, 0, << >>)

(***************************************************************************)
(* The deployments the read adapter is checked on.  The engine tables hold *)
(* at most one event per actor, unverified or verified on insert, A's      *)
(* before B's, with the rollups the trigger has built from the verified    *)
(* ones.  The tables of the newer generations hold data, are empty, are    *)
(* missing (the query returns an error) or make the client throw.          *)
(***************************************************************************)
Statuses == {"ok", "error", "throw"}

EventAmount(a) == IF a = "A" THEN 100 ELSE 50

ActorEvents(a) ==
  {<< >>} \cup {<<[user_id |-> a, emissions_saved_lbs |-> EventAmount(a),
                   verified |-> v, verified_at |-> 0]>> : v \in BOOLEAN}

ReadStores == {ea \o eb : <<ea, eb>> \in ActorEvents("A") \X ActorEvents("B")}

\* the time of the insert of the last verified event of the users in U
LastVerified(acts, U) ==
  LET S == {i \in 1..Len(acts) : acts[i].verified /\ acts[i].user_id \in U}
  IN IF S = {} THEN 0 ELSE CHOOSE i \in S : \A j \in S : j <= i

RollupStats(acts) ==
  [a \in Actors |->
     IF VerifiedCount(acts, {a}) = 0 THEN NoStats
     ELSE [present |-> TRUE,
           total_emissions_lbs |-> VerifiedSum(acts, Len(acts), {a}),
           action_count |-> VerifiedCount(acts, {a}),
           last_updated |-> LastVerified(acts, {a})]]

RollupGlobal(acts) ==
  IF VerifiedCount(acts, Actors) = 0 THEN NoGlobal
  ELSE [total_lbs_saved |-> VerifiedSum(acts, Len(acts), Actors),
        total_actions |-> VerifiedCount(acts, Actors),
        last_updated |-> LastVerified(acts, Actors)]

TableCases(data, empty) ==
  {data, empty, [empty EXCEPT !.status = "error"],
   [empty EXCEPT !.status = "throw"]}

\* a summary table with a row of A: total t (0.0001 kg) over n actions
ReadStatsTable(t, n) ==
  [status |-> "ok",
   rows |-> [a \in Actors |->
               IF a = "A"
               THEN [present |-> TRUE, total_co2_saved_kg |-> t,
                     current_year_co2 |-> t, current_month_co2 |-> t,
                     total_actions |-> n, last_action_date |-> 1]
               ELSE NoSummaryRow]]

ReadGlobalTable(t, n) ==
  [status |-> "ok",
   row |-> [present |-> TRUE, total_users |-> 1, total_co2_saved_kg |-> t,
            total_actions |-> n]]

\* a log table, newest row first
ReadLogTable(k) ==
  [status |-> "ok",
   rows |-> <<[log_id |-> k + 1, user_id |-> "B", co2_saved_kg |-> k],
              [log_id |-> k, user_id |-> "A", co2_saved_kg |-> k]>>]

ReadBoardTable ==
  [status |-> "ok", rows |-> BoardRows("global", "global", "all_time",
                                       <<"A", "B">>)]

InitRead ==
  /\ sync_audit_log = << >>
  /\ tx = [s \in Sessions |-> IdleTx]
  /\ last = NoCall
  /\ lb = NoResponse
  /\ rd = NoRead
  /\ page = NoPage
  /\ \E acts \in ReadStores :
       /\ user_actions = acts
       /\ user_stats = RollupStats(acts)
       /\ global_emissions = RollupGlobal(acts)
       /\ now = Len(acts)
       /\ \/ \* the sources of getUserStatistics
             \E t1 \in TableCases(ReadStatsTable(12, 3), EmptyStatsTable),
                t2 \in TableCases(ReadStatsTable(8, 2), EmptyStatsTable),
                st \in Statuses :
               db = [NoDb EXCEPT !.user_stats_summary = t1,
                                 !.user_statistics = t2,
                                 !.legacy.user_actions = st]
          \/ \* the sources of getGlobalStatistics
             \E t1 \in TableCases(ReadGlobalTable(12, 3), EmptyGlobalTable),
                t2 \in TableCases(ReadGlobalTable(8, 2), EmptyGlobalTable),
                st \in [{"global_emissions", "profiles", "user_actions"}
                          -> Statuses] :
               /\ \/ Cardinality({x \in DOMAIN st : st[x] # "ok"}) <= 1
                  \/ \A x, y \in DOMAIN st : st[x] = st[y]
               /\ db = [NoDb EXCEPT
                          !.global_stats_rollup = t1,
                          !.global_statistics = t2,
                          !.legacy.global_emissions = st["global_emissions"],
                          !.legacy.profiles = st["profiles"],
                          !.legacy.user_actions = st["user_actions"]]
          \/ \* the sources of getRecentActionLogs
             \E t1 \in TableCases(ReadLogTable(12), EmptyLogTable),
                t2 \in TableCases(ReadLogTable(8), EmptyLogTable),
                st \in Statuses :
               db = [NoDb EXCEPT !.user_action_events = t1,
                                 !.user_action_logs = t2,
                                 !.legacy.user_actions = st]
          \/ \* the sources of getUserTotal and getGlobalTotal
             \E st \in [{"rpc", "user_stats", "global_emissions",
                         "user_actions"} -> Statuses] :
               db = [NoDb EXCEPT
                       !.legacy.rpc = st["rpc"],
                       !.legacy.user_stats = st["user_stats"],
                       !.legacy.global_emissions = st["global_emissions"],
                       !.legacy.user_actions = st["user_actions"]]
          \/ \* the sources of getLeaderboardEntries
             /\ acts = << >>
             /\ \E b1, b2 \in TableCases(ReadBoardTable, EmptyBoardTable),
                  t1 \in TableCases(ReadStatsTable(12, 3), EmptyStatsTable),
                  t2 \in TableCases(ReadStatsTable(8, 2), EmptyStatsTable) :
                  db = [NoDb EXCEPT !.leaderboard_snapshots = b1,
                                    !.leaderboards = b2,
                                    !.user_stats_summary = t1,
                                    !.user_statistics = t2]

Answer(call, userId, limit, r) ==
  [call |-> call, userId |-> userId, limit |-> limit, source |-> r.source,
   result |-> r.result, total |-> r.total, count |-> r.count,
   users |-> r.users, entries |-> r.entries]

enginevars == <<user_actions, user_stats, global_emissions, sync_audit_log,
                tx, now, last>>

CallGetUserStatistics(userId) ==
  /\ rd' = Answer("getUserStatistics", userId, 0, getUserStatistics(userId))
  /\ UNCHANGED <<enginevars, db, lb, page>>

CallGetGlobalStatistics ==
  /\ rd' = Answer("getGlobalStatistics", "", 0, getGlobalStatistics)
  /\ UNCHANGED <<enginevars, db, lb, page>>

CallGetRecentActionLogs(userId, limit) ==
  /\ rd' = Answer("getRecentActionLogs", userId, limit,
                  getRecentActionLogs(userId, limit))
  /\ UNCHANGED <<enginevars, db, lb, page>>

CallGetUserTotal(userId) ==
  /\ rd' = Answer("getUserTotal", userId, 0, getUserTotal(userId))
  /\ UNCHANGED <<enginevars, db, lb, page>>

CallGetGlobalTotal ==
  /\ rd' = Answer("getGlobalTotal", "", 0, getGlobalTotal)
  /\ UNCHANGED <<enginevars, db, lb, page>>

NextRead ==
  \/ \E userId \in Actors : CallGetUserStatistics(userId)
  \/ CallGetGlobalStatistics
  \/ \E userId \in {""} \cup Actors, limit \in Limits :
       CallGetRecentActionLogs(userId, limit)
  \/ \E userId \in Actors : CallGetUserTotal(userId)
  \/ CallGetGlobalTotal
  \/ \E limit \in Limits :
       CallGetLeaderboardEntries("all_time", "global", "", limit)

SpecRead == InitRead /\ [][NextRead]_vars

(***************************************************************************)
(* C21 -- C23: the read adapter.                                           *)
(***************************************************************************)
\* the sources of a read function, first to last: current generation, prior
\* generation, legacy generation, recomputation from the raw events
ReadPriority(call) ==
  CASE call = "getUserStatistics" ->
         <<"user_stats_summary", "user_statistics", "user_stats", "user_actions">>
    [] call = "getGlobalStatistics" ->
         <<"global_stats_rollup", "global_statistics", "global_emissions",
           "user_actions">>
    [] call = "getRecentActionLogs" ->
         <<"user_action_events", "user_action_logs", "user_actions">>
    [] OTHER -> << >>

\* source answers the query of the call for userId with a present, non-empty
\* result
Yields(source, userId, limit) ==
  CASE source \in {"user_stats_summary", "user_statistics"} ->
         UserRowFound(db[source], userId)
    [] source = "user_stats" ->
         db.legacy.user_stats = "ok" /\ user_stats[userId].present
    [] source \in {"global_stats_rollup", "global_statistics"} ->
         GlobalRowFound(db[source])
    [] source = "global_emissions" -> db.legacy.global_emissions = "ok"
    [] source \in {"user_action_events", "user_action_logs"} ->
         Len(LogQuery(db[source], userId, limit)) > 0
    [] source = "user_actions" -> db.legacy.user_actions = "ok"
    [] OTHER -> FALSE

RECURSIVE FirstYielding(_, _, _)
FirstYielding(order, userId, limit) ==
  IF order = << >> THEN "none"
  ELSE IF Yields(Head(order), userId, limit) THEN Head(order)
  ELSE FirstYielding(Tail(order), userId, limit)

\* no query of a newer-generation table throws and every legacy table is
\* readable
LegacyReadable ==
  /\ \A t \in {"user_stats_summary", "user_statistics", "global_stats_rollup",
               "global_statistics", "user_action_events", "user_action_logs"} :
       db[t].status # "throw"
  /\ \A t \in {"user_stats", "global_emissions", "user_actions", "profiles"} :
       db.legacy[t] = "ok"

\* C21: the response of getUserStatistics, getGlobalStatistics and
\* getRecentActionLogs is taken from the first source of the priority order
\* (current, prior, legacy generation, recomputation) that yields a result;
\* the legacy table is consulted before the recomputation.  Stated for the
\* deployments whose legacy tables are readable.
C21_ReadPriority ==
  (/\ rd.call \in {"getUserStatistics", "getGlobalStatistics",
                   "getRecentActionLogs"}
   /\ LegacyReadable)
    => rd.source = FirstYielding(ReadPriority(rd.call), rd.userId, rd.limit)

\* the (total, count) pairs that one generation alone offers for the users in
\* U: a row of a newer table, the legacy rollup, the raw events (all of them,
\* or the verified ones)
GenerationPairs(newer, legacy, U) ==
  {[total |-> KgValue(r.total_co2_saved_kg), count |-> r.total_actions] :
     r \in {x \in newer : x.present}}
  \cup {legacy,
        [total |-> LbsToKg(SumActions(user_actions, Len(user_actions), U)),
         count |-> CountActions(user_actions, U)],
        [total |-> LbsToKg(VerifiedSum(user_actions, Len(user_actions), U)),
         count |-> VerifiedCount(user_actions, U)]}

UserGenerations(userId) ==
  GenerationPairs({db.user_stats_summary.rows[userId],
                   db.user_statistics.rows[userId]},
                  [total |-> LbsToKg(user_stats[userId].total_emissions_lbs),
                   count |-> user_stats[userId].action_count],
                  {userId})

GlobalGenerations ==
  GenerationPairs({db.global_stats_rollup.row, db.global_statistics.row},
                  [total |-> LbsToKg(global_emissions.total_lbs_saved),
                   count |-> global_emissions.total_actions],
                  Actors)

\* C22: the total and the action count of one response of getUserStatistics
\* or getGlobalStatistics come from one and the same generation.  Stated for
\* the deployments whose legacy tables are readable.
C22_OneGeneration ==
  (LegacyReadable /\ rd.result = "value")
    => /\ rd.call = "getUserStatistics"
            => [total |-> rd.total, count |-> rd.count]
                 \in UserGenerations(rd.userId)
       /\ rd.call = "getGlobalStatistics"
            => [total |-> rd.total, count |-> rd.count] \in GlobalGenerations

\* the outcomes of the queries a read function may make
Consulted(call) ==
  CASE call = "getUserStatistics" ->
         {db.user_stats_summary.status, db.user_statistics.status,
          db.legacy.user_actions}
    [] call = "getGlobalStatistics" ->
         {db.global_stats_rollup.status, db.global_statistics.status,
          db.legacy.global_emissions, db.legacy.profiles,
          db.legacy.user_actions}
    [] call = "getRecentActionLogs" ->
         {db.user_action_events.status, db.user_action_logs.status,
          db.legacy.user_actions}
    [] call = "getUserTotal" ->
         {db.legacy.rpc, db.legacy.user_stats, db.legacy.user_actions}
    [] call = "getGlobalTotal" ->
         {db.legacy.rpc, db.legacy.global_emissions, db.legacy.user_stats}
    [] call = "getLeaderboardEntries" ->
         {db.leaderboard_snapshots.status, db.leaderboards.status,
          db.user_stats_summary.status, db.user_statistics.status}
    [] OTHER -> {}

\* C23: a read function never raises an error to its caller, whatever
\* sources fail, are absent or are empty; when every query it may make fails
\* the result is a no-data value (null, 0 or an empty list).
C23_ReadsNeverFail ==
  /\ rd.result # "raised"
  /\ (rd.call # "none" /\ "ok" \notin Consulted(rd.call))
       => /\ rd.total = 0 /\ rd.count = 0 /\ rd.users = 0
          /\ rd.entries = << >>
  /\ (lb.call = "getLeaderboardEntries" /\ "ok" \notin Consulted(lb.call))
       => lb.entries = << >>

\* getUserStatistics has answered null although every query threw
C23_Witness ==
  /\ rd.call = "getUserStatistics"
  /\ Consulted(rd.call) = {"throw"}
  /\ rd.result = "null"

(***************************************************************************)
(* C24 -- C30: constraints and row security of the engine tables.          *)
(***************************************************************************)
\* C24: an append with quantity <= 0 is rejected and leaves the event store,
\* every actor rollup, the global rollup and the audit log unchanged.
C24_NonPositiveQuantityRejected ==
  [][(\E s \in Sessions, a \in Actors, quantity \in QuantityInputs,
         q \in Quantities, v \in BOOLEAN :
        quantity <= 0 /\ InsertAction(s, a, quantity, q, v))
       => /\ last'.op = "check_violation"
          /\ UNCHANGED <<user_actions, user_stats, global_emissions,
                         sync_audit_log, tx>>]_vars

\* an append was rejected while the store holds events and a rollup
C24_Witness ==
  /\ last.op = "check_violation"
  /\ Len(user_actions) > 0
  /\ global_emissions.total_lbs_saved > 0

\* C25: for every stored event, verified_at is set exactly when verified is
\* true.
C25_VerifiedAtIffVerified ==
  \A e \in 1..Len(user_actions) :
    user_actions[e].verified <=> user_actions[e].verified_at # 0

\* C26: once an event is verified, no step returns its flag to false, changes
\* its savings or deletes it.
C26_VerifiedEventImmutable ==
  [][\A e \in 1..Len(user_actions) :
       user_actions[e].verified
         => /\ e <= Len(user_actions')
            /\ user_actions'[e].verified
            /\ user_actions'[e].emissions_saved_lbs
                 = user_actions[e].emissions_saved_lbs
            /\ user_actions'[e].user_id = user_actions[e].user_id]_vars

\* the owner of a verified event has tried to update it and no row was
\* affected
C26_Witness ==
  /\ last.op = "update_no_rows"
  /\ \E e \in 1..Len(user_actions) :
       user_actions[e].verified /\ user_actions[e].user_id = last.caller
  /\ \A e \in 1..Len(user_actions) : user_actions[e].user_id = last.caller

\* C27: only the trigger's transaction writes user_stats, and only it and the
\* reconciler's repair write global_emissions: no statement of an
\* authenticated user changes a row of either table.
C27_OnlyAggregatorWritesRollups ==
  [][/\ user_stats' # user_stats => \E s \in Sessions : Commit(s)
     /\ global_emissions' # global_emissions
          => \E s \in Sessions : Commit(s) \/ SyncFix(s)]_vars

\* C28: the submitting actor can neither insert an event that is already
\* verified nor set verified on their own unverified event: such a statement
\* stores nothing and starts no trigger.
C28_ActorCannotVerify ==
  [][\A s \in ClientSessions, uid \in Actors, q \in Quantities :
       (\/ ActorInsertAction(s, uid, uid, 1, q, TRUE)
        \/ \E e \in 1..Len(user_actions) :
             /\ user_actions[e].user_id = uid
             /\ ~user_actions[e].verified
             /\ ActorUpdateAction(s, uid, e, q, TRUE))
         => UNCHANGED <<user_actions, tx>>]_vars

\* C29: a reconcile pass repairs exactly when the discrepancy it observed is
\* 0.0100 or more (100 units of 0.0001) and reports in sync exactly when it
\* is 0.0099 or less; every audit row records a discrepancy of at least
\* 0.0100, and the consistency_check view draws the same line.
C29_RepairThreshold ==
  /\ last.op = "reconcile"
       => /\ last.fixed <=> Abs(last.user_stats_sum - last.global_total) >= 100
          /\ last.was_in_sync
               <=> Abs(last.user_stats_sum - last.global_total) <= 99
  /\ \A i \in 1..Len(sync_audit_log) : sync_audit_log[i].discrepancy >= 100
  /\ consistency_check.in_sync
       <=> Abs(consistency_check.user_stats_sum_lbs
                 - consistency_check.global_total_lbs) <= 99

\* a pass has repaired a discrepancy of exactly 0.0100
C29_Witness ==
  /\ last.op = "reconcile" /\ last.fixed /\ ~last.was_in_sync
  /\ Abs(last.user_stats_sum - last.global_total) = 100

\* C30: the commit of a verification transition of an event of actor a
\* leaves the rollup of every other actor and the audit log unchanged.
C30_OneActorRollupTouched ==
  [][\A s \in Sessions :
       (Commit(s) /\ "stats" \in tx[s].locks)
         => /\ \A b \in Actors \ {tx[s].new.user_id} :
                 user_stats'[b] = user_stats[b]
            /\ user_stats'[tx[s].new.user_id] # user_stats[tx[s].new.user_id]
            /\ sync_audit_log' = sync_audit_log]_vars

\* a verification of an event of B has committed while A has a rollup
C30_Witness ==
  /\ last.op \in {"append", "markVerified"} /\ last.fired
  /\ user_stats["A"].present /\ user_stats["B"].present
  /\ user_actions[Len(user_actions)].user_id = "B"
  /\ user_actions[Len(user_actions)].verified

(***************************************************************************)
(* C31 -- C37.                                                             *)
(***************************************************************************)
\* C31: a total recomputed from user_actions (calculateUserTotalFromActions,
\* calculateUserStatisticsFromActions) is the sum of the savings of the
\* actor's verified events, the value the actor rollup holds.
C31_RecomputationIsVerifiedSum ==
  (rd.source = "user_actions" /\ rd.result = "value")
    => /\ rd.call = "getUserTotal"
            => /\ rd.total = VerifiedSum(user_actions, Len(user_actions),
                                         {rd.userId})
               /\ rd.total = StatsTotal(rd.userId)
       /\ rd.call = "getUserStatistics"
            => rd.total = LbsToKg(VerifiedSum(user_actions, Len(user_actions),
                                              {rd.userId}))

\* C32: in every state reached by append, markVerified, reconcile and
\* tampering with the global total, the global row's total_actions equals
\* the sum of the actor rollups' action_count and the number of verified
\* events.
C32_GlobalCountIsVerifiedCount ==
  /\ global_emissions.total_actions = SumCounts(user_stats, Actors)
  /\ global_emissions.total_actions = VerifiedCount(user_actions, Actors)

\* a pass has repaired the tampered global row after a verification
C32_Witness ==
  /\ last.op = "reconcile" /\ last.fixed
  /\ global_emissions.total_actions = 1
  /\ sync_audit_log # << >>

\* C33: when user_stats_summary and user_statistics both return zero rows
\* without error, the computed fallback consults the legacy leaderboard
\* (here with at least one actor on it) instead of returning an empty list.
C33_EmptyStatsFallThrough ==
  (/\ lb.call = "getLeaderboardEntries"
   /\ lb.path \notin {"leaderboard_snapshots", "leaderboards"}
   /\ \A t \in {db.user_stats_summary, db.user_statistics} :
        t.status = "ok" /\ \A a \in Actors : ~t.rows[a].present
   /\ \E a \in Actors : user_stats[a].present)
    => lb.path = "legacy" /\ lb.entries # << >>

\* C34: every entry of a response of getLeaderboardEntries carries the
\* period that was asked for, on every source path.
C34_EntriesCarryRequestedPeriod ==
  lb.call = "getLeaderboardEntries" =>
    \A i \in 1..Len(lb.entries) : lb.entries[i].period = lb.period

\* C35: every entry of a response for scope 'country' and a scopeId belongs
\* to an actor of that country, on every source path; without a scopeId
\* the response does not span several countries.
C35_EntriesWithinScope ==
  (lb.call = "getLeaderboardEntries" /\ lb.scope = "country") =>
    \A i, j \in 1..Len(lb.entries) :
      /\ lb.scopeId # "" => Country(lb.entries[i].user_id) = lb.scopeId
      /\ lb.scopeId = ""
           => Country(lb.entries[i].user_id) = Country(lb.entries[j].user_id)

(***************************************************************************)
(* logAction (src/pages/Actions.tsx).  The handler closes over the profile *)
(* of the render that created it; only the button of the action being      *)
(* logged is disabled, so a second call can start while one is in flight.  *)
(***************************************************************************)
MaxLogged == 3

PointRewards == {10, 25}

\* supabase.from('user_actions').insert(..): on an error the call throws and
\* leaves through catch and finally
LogActionInsert(c, points, status) ==
  /\ page.call[c].pc = "idle"
  /\ page.started < MaxLogged
  /\ page' = [page EXCEPT
                !.started = @ + 1,
                !.call[c] = IF status = "error" THEN IdleCall
                            ELSE [pc |-> "update", points |-> points,
                                  base |-> page.profile]]
  /\ UNCHANGED <<enginevars, db, lb, rd>>

\* supabase.from('profiles').update({ total_points: profile.total_points +
\* points, .. }): an error is logged and the call goes on
LogActionUpdate(c, status) ==
  /\ page.call[c].pc = "update"
  /\ page' = [page EXCEPT
                !.total_points = IF status = "error" THEN @
                                 ELSE page.call[c].base + page.call[c].points,
                !.earned = IF status = "error" THEN @
                           ELSE @ + page.call[c].points,
                !.call[c].pc = "refresh"]
  /\ UNCHANGED <<enginevars, db, lb, rd>>

\* await refreshProfile(): the client state takes the profiles row as stored
LogActionRefresh(c) ==
  /\ page.call[c].pc = "refresh"
  /\ page' = [page EXCEPT !.profile = page.total_points,
                          !.call[c] = IdleCall]
  /\ UNCHANGED <<enginevars, db, lb, rd>>

NextPage ==
  \/ \E c \in Calls, points \in PointRewards, status \in {"ok", "error"} :
       LogActionInsert(c, points, status)
  \/ \E c \in Calls, status \in {"ok", "error"} : LogActionUpdate(c, status)
  \/ \E c \in Calls : LogActionRefresh(c)

SpecPage == Init /\ [][NextPage]_vars

\* C37: logAction keeps total_points consistent with the logged actions.
\* Whenever no call is in flight, total_points of the profile is higher
\* than at the start by exactly the rewards of the calls whose insert and
\* update succeeded: a call whose insert failed adds nothing, and calls
\* that overlapped add the sum of their rewards.
C37_PointsConsistent ==
  (\A c \in Calls : page.call[c].pc = "idle")
    => page.total_points = NoPage.total_points + page.earned

\* the transaction of session s is blocked at its next statement by a row
\* lock that session o holds
WaitsFor(s, o) ==
  /\ s # o
  /\ \/ /\ tx[s].pc = "trig_stats"
        /\ \/ "stats" \in tx[o].locks /\ tx[o].new.user_id = tx[s].new.user_id
           \/ tx[s].new.user_id \in tx[o].held
     \/ /\ tx[s].pc = "trig_glob"
        /\ "global" \in tx[o].locks
     \/ /\ tx[s].pc = "r_fix"
        /\ ~IsSynced(tx[s].stats_sum, tx[s].global_val)
        /\ "global" \in tx[o].locks

\* the next statement, or the commit, of the transaction of session s
Proceed(s) ==
  \/ TriggerUserStats(s) \/ TriggerGlobal(s) \/ TriggerGlobalNextRow(s)
  \/ Commit(s)
  \/ SyncSelectGlobal(s) \/ SyncFix(s) \/ SyncReturn(s)

\* C36: no deadlock.  Among concurrently running verification transactions
\* (on one or on several events) and reconcile passes, no set of
\* transactions waits on each other in a cycle, and every started
\* transaction either can take its next step or waits for a lock of a
\* transaction that is still running, so that by acyclicity some
\* transaction can always proceed to its commit.
C36_NoDeadlock ==
  /\ \A C \in SUBSET Sessions :
       C # {} => \E s \in C : \A o \in C : ~WaitsFor(s, o)
  /\ \A s \in Sessions :
       tx[s].pc # "idle"
         => \/ ENABLED Proceed(s)
            \/ \E o \in Sessions : WaitsFor(s, o) /\ tx[o].pc # "idle"

====
